---- MODULE Spec2Model ----
(***************************************************************************)
(* Model of the scheduling engine of vacation_scheduler.py:                *)
(*   optimize_vacation_schedule   (plan_vacations)                         *)
(*   assign_shifts_to_employees   (assign_shifts, tiered assignment)       *)
(*   rebalance_shift_assignments  (the rebalancer it ends with)            *)
(*   calculate_shift_hours, calculate_min_employees_needed,                *)
(*   can_cover_with_employees                                              *)
(*                                                                         *)
(* Conventions.  A date is an integer day number; day 0 is a Monday, so    *)
(* date.weekday() is d % 7 and the Monday of d's week is d - (d % 7).      *)
(* An employee name is an integer: its rank in the lexicographic order of  *)
(* the names (names are the keys of every dict of the program and are      *)
(* taken to be distinct).  A shift id is an integer: its rank in           *)
(* sorted(shift_reqs.keys()).  Hours are kept in whole minutes (the        *)
(* program keeps duration_mins / 60.0).  A Python dict is a sequence of    *)
(* <<key, value>> pairs in insertion order where the program iterates it.  *)
(***************************************************************************)
EXTENDS Integers, Sequences, FiniteSets, TLC

VARIABLES
    \* ---- inputs of a run
    employees,            \* List[Employee], in input order
    coverage_weekday,     \* List[CoverageRequirement]
    coverage_weekend,     \* List[CoverageRequirement]
    dates,                \* List[date] of the period
    shifts,               \* Dict shift name -> Shift
    vacation_schedule,    \* Dict name -> List[date]
    \* ---- control
    pc,                   \* position in the running function
    \* ---- assign_shifts_to_employees
    shift_assignments,    \* name -> dict date -> shift id (insertion order)
    hours_per_week,       \* (name, week_start) -> minutes
    total_hours,          \* name -> minutes
    shift_counts,         \* name -> number of assignments made
    consecutive_work_days,\* name -> count
    last_work_date,       \* name -> date, NoDate when absent
    asg,                  \* loop variables of the assigner
    errors,               \* the ERROR lines printed: <<date, shift_id, skill>>
    warnings,             \* the emergency-tier WARNING lines printed
    \* ---- rebalance_shift_assignments
    rb,                   \* local variables of the rebalancer
    \* ---- optimize_vacation_schedule
    start_date,           \* first date of the period
    num_weeks,
    target_days_per_employee,
    pl                    \* local variables of the allocator

inputs == <<employees, coverage_weekday, coverage_weekend, dates, shifts,
            vacation_schedule>>
tables == <<hours_per_week, total_hours, shift_counts, consecutive_work_days,
            last_work_date>>
plan_inputs == <<start_date, num_weeks, target_days_per_employee>>
assigner == <<shift_assignments, tables, asg, errors, warnings, rb>>
vars == <<inputs, pc, assigner, plan_inputs, pl>>

--------------------------------------------------------------------------
(* Bounds of the model *)

NumDates == 13
MaxRequired == 2

(* Program constants *)

DEFAULT_SHIFT_HOURS == 8
max_passes == 30
ConsecutiveLimit == 6
BaseSeed == 42

NoDate == -1000
NoSkill == "None"          \* the any-skill sentinel of required_skill
NoneSkill == "<None>"      \* Python None passed as required_skill

--------------------------------------------------------------------------
(* Generic helpers *)

Range(s) == {s[i] : i \in DOMAIN s}

RECURSIVE SumSeq(_)
SumSeq(s) == IF s = <<>> THEN 0 ELSE Head(s) + SumSeq(Tail(s))

RECURSIVE FilterSeq(_, _)
\* [x for x in s if x \in keep]
FilterSeq(s, keep) ==
    IF s = <<>> THEN <<>>
    ELSE IF Head(s) \in keep THEN <<Head(s)>> \o FilterSeq(Tail(s), keep)
    ELSE FilterSeq(Tail(s), keep)

RECURSIVE LexLess(_, _, _)
\* Python tuple comparison a < b, from position i on
LexLess(a, b, i) ==
    IF i > Len(a) THEN FALSE
    ELSE IF a[i] < b[i] THEN TRUE
    ELSE IF a[i] > b[i] THEN FALSE
    ELSE LexLess(a, b, i + 1)

RECURSIVE InsertByKey(_, _)
\* insert pair p = <<key, value>> into the key-sorted s, after equal keys
InsertByKey(s, p) ==
    IF s = <<>> THEN <<p>>
    ELSE IF LexLess(p[1], Head(s)[1], 1) THEN <<p>> \o s
    ELSE <<Head(s)>> \o InsertByKey(Tail(s), p)

RECURSIVE SortPairs(_, _)
\* list.sort(key=...): stable, ascending; pairs are <<key, value>>
SortPairs(done, todo) ==
    IF todo = <<>> THEN done
    ELSE SortPairs(InsertByKey(done, Head(todo)), Tail(todo))

Values(pairs) == [i \in DOMAIN pairs |-> pairs[i][2]]

Names == {employees[i].name : i \in DOMAIN employees}
employee_by_name(n) == CHOOSE e \in Range(employees) : e.name = n

weekday(d) == d % 7
week_start_of(d) == d - weekday(d)
WeekStarts == {week_start_of(dates[i]) : i \in DOMAIN dates}

--------------------------------------------------------------------------
(* calculate_shift_hours, in minutes.  A time string is kept as the list  *)
(* of its ':'-separated parts; a part is [num |-> TRUE, val |-> n] when    *)
(* int() gives n and [num |-> FALSE, val |-> 0] when int() raises          *)
(* ValueError.  Fewer than two parts raise IndexError.                     *)

IsMalformed(parts) == Len(parts) < 2 \/ ~parts[1].num \/ ~parts[2].num

\* the wrap of Shift.__init__ (end < start) in place of end <= start
shift_hours_strict_wrap(shift_id, shift_table) ==
    IF shift_id \notin DOMAIN shift_table THEN DEFAULT_SHIFT_HOURS * 60
    ELSE LET shift == shift_table[shift_id] IN
         IF IsMalformed(shift.start) \/ IsMalformed(shift.end)
         THEN DEFAULT_SHIFT_HOURS * 60
         ELSE LET start_mins == shift.start[1].val * 60 + shift.start[2].val
                  end_mins0 == shift.end[1].val * 60 + shift.end[2].val
                  end_mins == IF end_mins0 < start_mins
                              THEN end_mins0 + 24 * 60 ELSE end_mins0
              IN end_mins - start_mins

calculate_shift_hours(shift_id, shift_table) ==
    IF shift_id \notin DOMAIN shift_table THEN DEFAULT_SHIFT_HOURS * 60
    ELSE LET shift == shift_table[shift_id] IN
         IF IsMalformed(shift.start) \/ IsMalformed(shift.end)
         THEN DEFAULT_SHIFT_HOURS * 60
         ELSE LET start_mins == shift.start[1].val * 60 + shift.start[2].val
                  end_mins0 == shift.end[1].val * 60 + shift.end[2].val
                  end_mins == IF end_mins0 <= start_mins
                              THEN end_mins0 + 24 * 60 ELSE end_mins0
              IN end_mins - start_mins

--------------------------------------------------------------------------
(* Dict helpers for shift_assignments[name]: a sequence of <<date, shift>> *)

HasDate(assignments, d) == \E i \in DOMAIN assignments : assignments[i][1] = d

ShiftOn(assignments, d) ==
    LET i == CHOOSE j \in DOMAIN assignments : assignments[j][1] = d
    IN assignments[i][2]

\* assignments[d] = s : overwrite in place, or append a new key
DictSet(assignments, d, s) ==
    IF HasDate(assignments, d)
    THEN [i \in DOMAIN assignments |->
            IF assignments[i][1] = d THEN <<d, s>> ELSE assignments[i]]
    ELSE Append(assignments, <<d, s>>)

RECURSIVE DictDel(_, _)
\* del assignments[d]
DictDel(assignments, d) ==
    IF assignments = <<>> THEN <<>>
    ELSE IF Head(assignments)[1] = d THEN Tail(assignments)
    ELSE <<Head(assignments)>> \o DictDel(Tail(assignments), d)

requirements_for(d) ==
    IF weekday(d) >= 5 THEN coverage_weekend ELSE coverage_weekday

vacation_dates_by_employee(n) ==
    IF n \in DOMAIN vacation_schedule THEN Range(vacation_schedule[n]) ELSE {}

--------------------------------------------------------------------------
(* assign_shifts_to_employees: helpers *)

names_of(emps) == [i \in DOMAIN emps |-> emps[i].name]

\* every employee, whether on vacation or not
employees_available_unfiltered(d) == names_of(employees)

\* employees_available = [emp for emp in employees if date not in vacation...]
employees_available(d) ==
    FilterSeq(names_of(employees),
              {n \in Names : d \notin vacation_dates_by_employee(n)})

RECURSIVE SortedSeq(_)
\* sorted(keys) of a set of integers
SortedSeq(S) ==
    IF S = {} THEN <<>>
    ELSE LET m == CHOOSE x \in S : \A y \in S : x <= y
         IN <<m>> \o SortedSeq(S \ {m})

\* reqs = shift_reqs[shift_id]
reqs_of(requirements, shift_id) ==
    LET keep == {i \in DOMAIN requirements : requirements[i].shift_id = shift_id}
        idx == SortedSeq(keep)
    IN [k \in DOMAIN idx |-> requirements[idx[k]]]

total_needed_of(reqs) == SumSeq([i \in DOMAIN reqs |-> reqs[i].required])

RECURSIVE skill_needs_from(_, _)
\* for req in reqs: if req.required_skill != "None":
\*     skill_needs[req.required_skill] = req.required
skill_needs_from(reqs, acc) ==
    IF reqs = <<>> THEN acc
    ELSE LET req == Head(reqs) IN
         skill_needs_from(Tail(reqs),
             IF req.required_skill # NoSkill
             THEN DictSet(acc, req.required_skill, req.required)
             ELSE acc)

skill_needs_of(reqs) == skill_needs_from(reqs, <<>>)

\* a tier test that never looks at the hours of the week
max_hours_unlimited(n, week_start, shift_hours) == TRUE

\* week_hours + shift_hours <= emp.max_hours_per_week
under_max_hours(n, week_start, shift_hours) ==
    hours_per_week[<<n, week_start>>] + shift_hours
        <= employee_by_name(n).max_hours_per_week * 60

\* a tier test that never looks at the run of working days
consecutive_unlimited(n) == TRUE

\* consecutive_work_days[emp.name] < 6
under_consecutive_limit(n) == consecutive_work_days[n] < ConsecutiveLimit

under_target_hours(n, week_start, shift_hours) ==
    hours_per_week[<<n, week_start>>] + shift_hours
        <= employee_by_name(n).weekly_target_hours * 60

\* the employees the tier loop does not skip
considered(available, assigned_today, required_skill) ==
    {n \in Range(available) :
        /\ n \notin assigned_today
        /\ (required_skill = NoneSkill
              \/ required_skill \in employee_by_name(n).skills)}

tier3_of(available, assigned_today, required_skill) ==
    FilterSeq(available, considered(available, assigned_today, required_skill))

tier1_of(available, week_start, shift_hours, assigned_today, required_skill) ==
    FilterSeq(available,
        {n \in considered(available, assigned_today, required_skill) :
            /\ under_max_hours(n, week_start, shift_hours)
            /\ under_consecutive_limit(n)
            /\ under_target_hours(n, week_start, shift_hours)})

tier2_of(available, week_start, shift_hours, assigned_today, required_skill) ==
    FilterSeq(available,
        {n \in considered(available, assigned_today, required_skill) :
            /\ under_max_hours(n, week_start, shift_hours)
            /\ under_consecutive_limit(n)
            /\ ~under_target_hours(n, week_start, shift_hours)})

create_sort_key_for_employee(n, week_start, shift_hours) ==
    LET week_hours == hours_per_week[<<n, week_start>>]
        would_exceed_target ==
            week_hours + shift_hours > employee_by_name(n).weekly_target_hours * 60
    IN <<IF would_exceed_target THEN 1 ELSE 0, week_hours, shift_counts[n],
         total_hours[n], n>>

\* a tier left in the order of the employee list
unsorted_tier(tier, week_start, shift_hours) == tier

\* tier.sort(key=lambda emp: create_sort_key_for_employee(...))
sort_tier(tier, week_start, shift_hours) ==
    Values(SortPairs(<<>>,
        [i \in DOMAIN tier |->
            <<create_sort_key_for_employee(tier[i], week_start, shift_hours),
              tier[i]>>]))

\* get_valid_candidates_tiered, each tier sorted
get_valid_candidates_tiered(available, week_start, shift_hours, assigned_today,
                            required_skill) ==
    [tier1 |-> sort_tier(tier1_of(available, week_start, shift_hours,
                                  assigned_today, required_skill),
                         week_start, shift_hours),
     tier2 |-> sort_tier(tier2_of(available, week_start, shift_hours,
                                  assigned_today, required_skill),
                         week_start, shift_hours),
     tier3 |-> sort_tier(tier3_of(available, assigned_today, required_skill),
                         week_start, shift_hours)]

--------------------------------------------------------------------------
(* assign_shifts_to_employees: the loops, one action per step *)

AsgInit ==
    [date_idx |-> 1, assigned_today |-> {}, shift_queue |-> <<>>,
     shift_id |-> 0, total_needed |-> 0, skill_queue |-> <<>>,
     skill |-> NoneSkill, needed |-> 0, assigned_this_shift |-> <<>>,
     candidates |-> <<>>, i |-> 1, assigned_count |-> 0,
     n_tier1 |-> 0, n_tier2 |-> 0, used_tier |-> 1, shift_hours |-> 0,
     residual |-> FALSE]

cur_date == dates[asg.date_idx]

\* for date in dates: ... shift_reqs grouped, assigned_today = set()
BeginDate ==
    /\ pc = "date"
    /\ asg.date_idx <= Len(dates)
    /\ LET requirements == requirements_for(cur_date) IN
       asg' = [asg EXCEPT
                 !.assigned_today = {},
                 !.shift_queue = SortedSeq({requirements[k].shift_id :
                                              k \in DOMAIN requirements})]
    /\ pc' = "shift"
    /\ UNCHANGED <<inputs, shift_assignments, tables, errors, warnings, rb,
                   plan_inputs, pl>>

\* for shift_id in sorted(shift_reqs.keys()): total_needed, skill_needs, shift_hours
BeginShift ==
    /\ pc = "shift"
    /\ asg.shift_queue # <<>>
    /\ LET shift_id == Head(asg.shift_queue)
           reqs == reqs_of(requirements_for(cur_date), shift_id)
       IN asg' = [asg EXCEPT
                    !.shift_queue = Tail(asg.shift_queue),
                    !.shift_id = shift_id,
                    !.total_needed = total_needed_of(reqs),
                    !.skill_queue = skill_needs_of(reqs),
                    !.shift_hours = calculate_shift_hours(shift_id, shifts),
                    !.assigned_this_shift = <<>>]
    /\ pc' = "group"
    /\ UNCHANGED <<inputs, shift_assignments, tables, errors, warnings, rb,
                   plan_inputs, pl>>

\* the date's shifts are exhausted: next date
EndDate ==
    /\ pc = "shift"
    /\ asg.shift_queue = <<>>
    /\ asg' = [asg EXCEPT !.date_idx = asg.date_idx + 1]
    /\ pc' = "date"
    /\ UNCHANGED <<inputs, shift_assignments, tables, errors, warnings, rb,
                   plan_inputs, pl>>

\* candidates = tier1 + tier2 + tier3 for one slot group
enter_group(required_skill, needed, residual) ==
    LET t == get_valid_candidates_tiered(employees_available(cur_date),
                 week_start_of(cur_date), asg.shift_hours,
                 asg.assigned_today, required_skill)
    IN asg' = [asg EXCEPT
                 !.skill = required_skill,
                 !.needed = needed,
                 !.residual = residual,
                 !.candidates = t.tier1 \o t.tier2 \o t.tier3,
                 !.n_tier1 = Len(t.tier1),
                 !.n_tier2 = Len(t.tier2),
                 !.i = 1,
                 !.assigned_count = 0,
                 !.used_tier = 1,
                 !.skill_queue = IF residual THEN <<>> ELSE Tail(asg.skill_queue)]

\* for skill, needed in skill_needs.items():
BeginSkillGroup ==
    /\ pc = "group"
    /\ asg.skill_queue # <<>>
    /\ enter_group(Head(asg.skill_queue)[1], Head(asg.skill_queue)[2], FALSE)
    /\ pc' = "assign"
    /\ UNCHANGED <<inputs, shift_assignments, tables, errors, warnings, rb,
                   plan_inputs, pl>>

remaining_needed == asg.total_needed - Len(asg.assigned_this_shift)

\* remaining_needed = total_needed - len(assigned_this_shift); if > 0: ...
BeginResidual ==
    /\ pc = "group"
    /\ asg.skill_queue = <<>>
    /\ IF remaining_needed > 0
       THEN /\ enter_group(NoneSkill, remaining_needed, TRUE)
            /\ pc' = "assign"
       ELSE /\ asg' = asg
            /\ pc' = "shift"
    /\ UNCHANGED <<inputs, shift_assignments, tables, errors, warnings, rb,
                   plan_inputs, pl>>

\* the body of  for i, emp in enumerate(candidates)
AssignSlot ==
    /\ pc = "assign"
    /\ asg.i <= Len(asg.candidates)
    /\ asg.assigned_count < asg.needed
    /\ LET emp == asg.candidates[asg.i]
           date == cur_date
           week_start == week_start_of(date)
           i0 == asg.i - 1
           emergency == i0 >= asg.n_tier1 + asg.n_tier2
       IN
       /\ warnings' = IF emergency /\ asg.used_tier < 3
                      THEN warnings \cup {<<date, asg.shift_id, asg.skill>>}
                      ELSE warnings
       /\ shift_assignments' =
              [shift_assignments EXCEPT ![emp] = DictSet(@, date, asg.shift_id)]
       /\ asg' = [asg EXCEPT
                    !.used_tier = IF emergency THEN 3
                                  ELSE IF i0 >= asg.n_tier1 THEN 2
                                  ELSE asg.used_tier,
                    !.assigned_today = asg.assigned_today \cup {emp},
                    !.assigned_this_shift =
                        IF asg.residual THEN asg.assigned_this_shift
                        ELSE Append(asg.assigned_this_shift, emp),
                    !.assigned_count = asg.assigned_count + 1,
                    !.i = asg.i + 1]
       /\ hours_per_week' = [hours_per_week EXCEPT
                               ![<<emp, week_start>>] = @ + asg.shift_hours]
       /\ total_hours' = [total_hours EXCEPT ![emp] = @ + asg.shift_hours]
       /\ shift_counts' = [shift_counts EXCEPT ![emp] = @ + 1]
       /\ consecutive_work_days' =
              [consecutive_work_days EXCEPT ![emp] =
                  IF last_work_date[emp] # NoDate /\ date - last_work_date[emp] = 1
                  THEN @ + 1 ELSE 1]
       /\ last_work_date' = [last_work_date EXCEPT ![emp] = date]
    /\ pc' = "assign"
    /\ UNCHANGED <<inputs, errors, rb, plan_inputs, pl>>

\* the loop is over (break, or candidates exhausted):
\* if assigned_count < needed: print ERROR
EndGroup ==
    /\ pc = "assign"
    /\ ~(asg.i <= Len(asg.candidates) /\ asg.assigned_count < asg.needed)
    /\ errors' = IF asg.assigned_count < asg.needed
                 THEN errors \cup {<<cur_date, asg.shift_id, asg.skill>>}
                 ELSE errors
    /\ pc' = IF asg.residual THEN "shift" ELSE "group"
    /\ UNCHANGED <<inputs, shift_assignments, tables, asg, warnings, rb,
                   plan_inputs, pl>>

\* all dates done: shift_assignments = rebalance_shift_assignments(...)
CallRebalance ==
    /\ pc = "date"
    /\ asg.date_idx > Len(dates)
    /\ pc' = "rb_init"
    /\ UNCHANGED <<inputs, assigner, plan_inputs, pl>>

--------------------------------------------------------------------------
(* rebalance_shift_assignments *)

\* random.seed(42 + pass_num); random.shuffle(x) for len(x) = 0..24:
\* row pass_num (1..29), column len(x) + 1; entry k of a permutation is the
\* old position of the element that ends at position k (CPython's
\* Mersenne Twister and Fisher-Yates shuffle, seeds 43..71).
rebalance_shuffle_table == <<
  <<<<>>, <<1>>, <<2,1>>, <<3,2,1>>, <<3,4,2,1>>, <<2,5,4,3,1>>, <<6,5,4,2,3,1>>, <<6,7,5,4,2,3,1>>, <<7,8,5,4,2,6,3,1>>, <<7,9,8,3,4,2,6,5,1>>, <<9,2,6,7,10,8,4,3,5,1>>, <<10,2,7,4,11,6,9,8,3,5,1>>, <<11,2,10,4,12,7,9,6,8,3,5,1>>, <<9,10,11,13,7,12,4,2,6,8,3,5,1>>, <<9,10,11,14,7,13,4,2,6,8,3,12,5,1>>, <<10,9,13,15,7,4,14,11,2,6,8,3,12,5,1>>, <<10,9,14,1,7,4,15,11,16,6,8,3,13,12,5,2>>, <<11,16,14,4,7,1,5,9,15,17,6,8,3,13,12,10,2>>, <<9,13,14,3,7,4,16,1,17,15,18,12,11,6,8,5,10,2>>, <<9,13,16,3,7,4,17,1,14,18,8,19,12,11,6,15,5,10,2>>, <<9,14,6,3,7,4,18,1,17,19,8,20,13,16,11,12,15,5,10,2>>, <<21,3,11,13,16,17,19,6,7,9,1,14,18,20,8,4,12,15,5,10,2>>, <<3,11,14,20,18,22,17,13,6,7,9,1,16,8,21,19,4,12,15,5,10,2>>, <<3,11,8,21,14,23,18,19,13,6,17,7,9,1,22,16,20,4,12,15,5,10,2>>, <<3,19,8,22,20,17,24,11,14,18,13,6,23,7,9,1,16,21,4,12,15,5,10,2>>>>,
  <<<<>>, <<1>>, <<1,2>>, <<3,1,2>>, <<2,1,3,4>>, <<3,2,5,1,4>>, <<3,2,6,1,5,4>>, <<3,2,7,1,6,5,4>>, <<3,6,4,2,1,8,5,7>>, <<5,6,1,3,9,4,8,2,7>>, <<5,6,1,3,10,4,8,2,9,7>>, <<5,6,1,3,11,4,8,2,10,9,7>>, <<6,5,12,1,8,10,4,3,2,11,9,7>>, <<4,6,5,8,1,11,10,13,3,2,12,9,7>>, <<5,8,12,6,11,1,10,4,14,3,2,13,9,7>>, <<5,8,13,6,11,1,10,4,15,3,2,12,14,9,7>>, <<6,11,16,8,10,13,1,5,4,7,3,2,12,15,9,14>>, <<17,6,10,15,12,9,8,11,2,13,1,5,16,7,3,4,14>>, <<18,6,10,15,12,9,8,11,2,13,1,5,16,7,3,4,17,14>>, <<9,15,16,11,3,13,8,10,12,2,19,1,5,18,7,6,4,17,14>>, <<9,15,16,11,3,13,8,10,12,2,20,1,5,19,7,6,4,18,17,14>>, <<9,7,20,12,3,21,8,11,16,10,2,15,1,5,19,13,6,4,18,17,14>>, <<11,9,20,21,16,15,7,3,12,22,10,2,19,1,5,8,13,6,4,18,17,14>>, <<11,12,9,22,23,7,19,5,3,21,15,16,2,20,1,10,8,13,6,4,18,17,14>>, <<12,11,19,22,15,7,20,5,9,3,24,16,23,2,21,1,10,8,13,6,4,18,17,14>>>>,
  <<<<>>, <<1>>, <<1,2>>, <<1,3,2>>, <<1,4,2,3>>, <<1,5,2,4,3>>, <<6,1,2,5,4,3>>, <<5,2,1,7,6,4,3>>, <<6,8,2,1,3,7,4,5>>, <<8,9,2,6,1,3,4,7,5>>, <<2,4,6,10,9,1,3,8,7,5>>, <<9,2,4,10,6,3,1,11,8,7,5>>, <<6,4,10,9,1,11,3,2,12,8,7,5>>, <<9,12,11,4,6,1,3,10,2,13,8,7,5>>, <<3,10,9,12,4,13,1,6,11,2,14,8,7,5>>, <<3,9,11,10,14,4,13,1,6,12,2,15,8,7,5>>, <<15,14,11,3,10,16,4,12,1,6,13,2,5,8,7,9>>, <<12,4,17,11,3,7,10,15,13,1,6,16,2,5,8,14,9>>, <<10,13,4,12,7,3,18,11,8,17,1,6,15,2,5,16,14,9>>, <<10,4,18,13,7,17,3,11,12,8,15,1,6,5,2,19,16,14,9>>, <<17,4,11,19,18,10,7,15,12,13,8,2,1,6,5,3,20,16,14,9>>, <<7,12,4,18,11,15,17,19,5,13,20,8,2,1,6,10,3,21,16,14,9>>, <<18,19,4,13,12,6,7,17,20,5,21,15,8,2,1,11,10,3,22,16,14,9>>, <<7,6,4,19,18,22,20,13,17,12,5,15,21,8,2,1,11,10,3,23,16,14,9>>, <<21,4,6,19,7,22,15,18,23,12,13,5,2,17,8,20,1,11,10,3,24,16,14,9>>>>,
  <<<<>>, <<1>>, <<2,1>>, <<3,2,1>>, <<3,4,2,1>>, <<2,3,5,4,1>>, <<2,5,3,6,4,1>>, <<6,5,3,2,7,4,1>>, <<7,6,3,8,5,1,4,2>>, <<4,8,3,9,6,5,1,7,2>>, <<4,8,3,6,10,9,5,1,7,2>>, <<10,3,8,9,11,5,6,4,1,7,2>>, <<8,12,9,6,10,11,5,3,4,1,7,2>>, <<8,13,9,6,11,12,5,3,4,10,1,7,2>>, <<8,14,9,6,12,13,5,3,4,11,10,1,7,2>>, <<8,14,9,6,12,13,5,3,4,11,10,1,7,2,15>>, <<2,5,11,6,12,15,8,14,16,9,4,13,10,1,7,3>>, <<2,5,12,6,16,7,8,15,17,9,11,4,14,10,1,13,3>>, <<16,5,17,6,14,7,8,1,12,18,9,11,4,15,10,2,13,3>>, <<6,16,4,5,15,18,7,17,12,1,14,10,19,9,11,8,2,13,3>>, <<14,16,4,20,15,17,7,11,6,18,12,1,19,9,10,5,8,2,13,3>>, <<14,16,4,21,15,18,7,11,6,19,12,1,20,9,10,5,17,8,2,13,3>>, <<14,16,4,22,15,18,7,11,6,20,12,1,21,9,10,5,17,8,19,2,13,3>>, <<14,16,4,23,15,18,7,11,6,21,12,1,22,9,10,5,17,8,20,19,2,13,3>>, <<14,9,4,12,7,20,18,24,10,15,11,6,23,16,1,22,5,17,8,21,19,2,13,3>>>>,
  <<<<>>, <<1>>, <<1,2>>, <<3,1,2>>, <<4,2,1,3>>, <<4,5,2,1,3>>, <<5,2,6,4,1,3>>, <<6,2,7,5,4,1,3>>, <<7,2,3,8,5,4,1,6>>, <<1,9,8,3,7,5,4,2,6>>, <<1,10,9,3,8,4,5,7,2,6>>, <<9,1,10,4,11,3,5,8,7,2,6>>, <<10,1,11,4,12,3,5,8,9,7,2,6>>, <<12,1,11,10,4,5,3,13,8,9,7,2,6>>, <<3,12,13,1,11,4,10,5,14,8,9,7,2,6>>, <<3,13,14,1,12,4,11,5,15,10,8,9,7,2,6>>, <<15,11,3,16,1,13,4,14,5,6,10,8,9,7,2,12>>, <<2,11,16,13,1,17,4,15,14,5,6,10,8,9,7,3,12>>, <<2,17,16,18,4,1,11,13,7,15,5,6,10,8,9,14,3,12>>, <<4,18,2,13,8,19,17,16,1,11,7,9,5,6,10,15,14,3,12>>, <<2,6,17,4,19,18,8,16,20,1,10,13,7,9,5,11,15,14,3,12>>, <<2,6,17,4,20,19,8,16,21,1,10,13,7,9,5,11,15,18,14,3,12>>, <<5,6,8,22,4,21,19,2,17,13,1,10,20,7,16,9,11,15,18,14,3,12>>, <<6,23,17,8,5,4,22,21,2,16,20,19,1,10,7,13,9,11,15,18,14,3,12>>, <<6,24,17,8,5,4,23,22,2,16,21,20,1,10,7,13,9,11,19,15,18,14,3,12>>>>,
  <<<<>>, <<1>>, <<1,2>>, <<1,2,3>>, <<4,2,1,3>>, <<4,2,1,3,5>>, <<1,4,6,2,3,5>>, <<7,1,4,6,2,3,5>>, <<7,1,4,3,8,5,2,6>>, <<7,1,4,3,8,5,2,6,9>>, <<2,1,4,8,7,10,5,3,6,9>>, <<10,11,1,4,2,8,7,5,3,6,9>>, <<11,10,1,4,2,8,7,5,12,3,6,9>>, <<12,11,1,4,2,8,7,5,10,13,3,6,9>>, <<7,1,12,10,2,8,13,4,5,11,14,3,6,9>>, <<7,1,13,10,2,8,14,4,11,5,12,15,3,6,9>>, <<6,16,15,10,1,8,2,7,4,13,5,14,12,9,3,11>>, <<17,14,8,10,1,6,2,3,7,4,13,16,15,12,9,5,11>>, <<17,14,8,10,1,6,2,3,7,4,13,16,15,12,9,5,11,18>>, <<19,1,14,17,8,6,15,2,16,3,7,12,4,9,13,10,5,11,18>>, <<19,1,9,14,6,20,17,4,8,2,15,3,16,13,12,7,10,5,11,18>>, <<20,1,9,14,6,19,17,4,8,2,15,3,16,13,12,7,10,21,5,11,18>>, <<21,1,9,14,6,20,17,4,8,2,15,3,16,13,12,7,10,19,22,5,11,18>>, <<22,1,9,14,6,21,19,4,8,2,15,3,16,13,12,7,17,10,20,23,5,11,18>>, <<16,1,19,12,6,22,20,9,4,8,2,23,13,15,3,14,7,17,10,21,24,5,11,18>>>>,
  <<<<>>, <<1>>, <<2,1>>, <<3,2,1>>, <<4,3,2,1>>, <<4,5,2,3,1>>, <<5,2,6,4,3,1>>, <<6,5,2,7,4,3,1>>, <<8,5,6,7,1,4,3,2>>, <<9,7,5,8,3,1,4,6,2>>, <<10,4,9,8,5,3,1,7,6,2>>, <<8,4,9,1,10,5,3,11,7,6,2>>, <<9,4,3,1,8,5,10,11,12,7,6,2>>, <<5,11,4,10,3,8,9,1,12,13,7,6,2>>, <<5,12,4,11,3,8,10,1,9,13,14,7,6,2>>, <<5,13,4,12,3,8,11,1,10,9,14,15,7,6,2>>, <<5,8,4,13,16,12,14,10,1,11,9,15,2,7,6,3>>, <<8,13,17,15,11,4,14,5,10,1,16,9,6,2,7,12,3>>, <<8,13,18,7,11,4,16,5,10,1,17,9,6,2,15,14,12,3>>, <<18,7,8,2,10,15,16,19,5,11,1,17,9,13,6,4,14,12,3>>, <<15,7,8,2,10,6,17,20,5,19,16,1,18,9,13,11,4,14,12,3>>, <<9,18,10,16,7,15,6,19,8,21,5,20,13,1,17,2,11,4,14,12,3>>, <<9,19,10,16,7,15,6,20,8,22,5,21,13,1,18,2,17,11,4,14,12,3>>, <<9,20,10,16,7,15,6,21,8,23,5,22,13,1,19,2,17,18,11,4,14,12,3>>, <<20,10,16,6,22,15,7,21,9,1,8,24,5,23,13,19,2,17,18,11,4,14,12,3>>>>,
  <<<<>>, <<1>>, <<1,2>>, <<1,3,2>>, <<1,3,2,4>>, <<5,1,2,3,4>>, <<2,1,6,5,3,4>>, <<1,7,5,2,6,3,4>>, <<1,4,5,2,6,3,7,8>>, <<7,1,9,4,2,6,3,5,8>>, <<9,7,1,3,4,2,10,6,5,8>>, <<7,2,10,1,3,11,9,4,6,5,8>>, <<2,9,11,10,1,3,7,12,4,6,5,8>>, <<10,7,9,2,3,12,1,11,13,4,6,5,8>>, <<10,7,9,2,3,13,1,12,14,4,11,6,5,8>>, <<10,7,9,2,3,13,1,12,15,4,11,6,5,14,8>>, <<9,7,12,1,10,3,15,2,13,8,4,11,6,5,14,16>>, <<3,7,13,1,5,14,17,10,2,15,8,12,4,11,6,9,16>>, <<3,7,14,1,5,13,10,15,17,2,6,8,18,4,11,12,9,16>>, <<3,7,14,11,1,5,10,4,15,18,2,6,13,19,17,8,12,9,16>>, <<10,5,7,11,1,3,17,15,18,4,14,19,2,6,13,20,8,12,9,16>>, <<10,19,13,5,7,1,18,3,15,14,17,4,6,20,2,11,21,8,12,9,16>>, <<10,13,19,5,20,1,7,14,18,2,15,17,4,6,21,3,11,22,8,12,9,16>>, <<15,7,5,1,20,13,14,10,21,6,17,2,22,19,4,18,3,11,23,8,12,9,16>>, <<15,7,5,1,20,13,14,10,22,6,17,2,23,19,4,18,3,11,24,8,21,12,9,16>>>>,
  <<<<>>, <<1>>, <<2,1>>, <<2,3,1>>, <<4,1,3,2>>, <<4,3,1,5,2>>, <<4,3,1,6,5,2>>, <<4,3,1,7,6,5,2>>, <<8,3,1,2,6,5,7,4>>, <<1,9,6,8,5,7,2,3,4>>, <<1,10,6,8,5,7,2,3,9,4>>, <<1,11,6,8,5,7,2,3,10,9,4>>, <<1,8,6,10,5,2,7,12,3,11,9,4>>, <<1,2,6,8,10,5,7,11,13,3,12,9,4>>, <<1,2,11,6,8,12,7,5,10,14,3,13,9,4>>, <<1,2,11,6,8,12,7,5,10,15,3,13,9,14,4>>, <<1,2,12,6,16,10,7,5,13,11,4,3,15,9,14,8>>, <<1,2,13,3,11,10,16,17,12,7,5,9,15,14,4,6,8>>, <<1,2,13,3,11,10,16,18,12,7,5,9,15,14,4,6,17,8>>, <<1,11,2,15,3,10,12,18,16,13,7,5,9,4,14,19,6,17,8>>, <<1,11,2,15,3,10,12,19,16,13,7,5,9,4,14,20,6,18,17,8>>, <<1,12,2,4,3,10,13,19,11,16,15,7,5,9,14,20,21,6,18,17,8>>, <<1,13,2,4,3,11,5,19,10,12,21,16,7,14,15,9,20,22,6,18,17,8>>, <<2,14,5,1,7,3,4,10,20,11,15,16,12,21,22,13,9,19,23,6,18,17,8>>, <<2,14,5,1,7,3,4,10,21,11,15,16,12,19,23,13,9,22,20,24,6,18,17,8>>>>,
  <<<<>>, <<1>>, <<1,2>>, <<3,1,2>>, <<4,2,1,3>>, <<4,2,5,1,3>>, <<5,6,2,4,1,3>>, <<6,7,2,4,5,1,3>>, <<7,3,2,4,8,6,1,5>>, <<7,8,2,3,4,9,6,1,5>>, <<2,6,10,9,4,3,7,8,1,5>>, <<2,6,11,10,4,3,7,8,9,1,5>>, <<3,10,7,12,2,11,4,6,8,9,1,5>>, <<3,13,10,4,11,2,12,7,6,8,9,1,5>>, <<3,14,10,4,11,2,13,7,6,8,9,12,1,5>>, <<11,3,15,10,4,13,2,14,7,6,8,9,12,1,5>>, <<11,13,5,14,10,4,2,3,15,7,6,8,16,12,1,9>>, <<11,13,5,14,10,4,16,3,1,7,6,8,17,12,15,2,9>>, <<15,17,18,5,12,4,8,10,13,11,3,1,7,6,14,16,2,9>>, <<15,18,19,5,12,4,8,10,13,11,3,1,7,6,14,16,17,2,9>>, <<10,5,19,4,11,14,20,8,6,18,15,13,3,1,7,12,16,17,2,9>>, <<20,11,19,10,4,5,21,15,8,6,13,7,18,3,1,14,12,16,17,2,9>>, <<19,11,18,10,4,5,22,1,8,6,13,7,20,3,15,21,14,12,16,17,2,9>>, <<21,19,18,10,11,4,20,23,1,8,6,15,7,13,3,5,22,14,12,16,17,2,9>>, <<22,15,11,20,18,24,4,19,10,1,8,21,3,7,13,6,5,23,14,12,16,17,2,9>>>>,
  <<<<>>, <<1>>, <<2,1>>, <<2,1,3>>, <<1,3,4,2>>, <<1,3,4,2,5>>, <<1,6,3,4,2,5>>, <<1,6,3,7,4,2,5>>, <<1,2,6,3,7,5,8,4>>, <<1,2,7,3,9,6,5,8,4>>, <<1,2,7,3,9,6,5,8,4,10>>, <<2,1,7,11,3,5,6,9,8,4,10>>, <<2,1,7,11,3,5,6,12,9,8,4,10>>, <<3,2,7,5,1,12,13,6,11,9,8,4,10>>, <<3,2,7,5,1,13,14,6,11,12,9,8,4,10>>, <<3,2,7,5,1,13,15,6,11,12,9,8,4,14,10>>, <<5,10,4,3,2,11,16,1,13,6,14,15,12,9,8,7>>, <<5,10,4,3,2,11,17,1,13,6,16,14,8,12,9,15,7>>, <<5,13,4,18,2,14,11,3,10,1,8,6,9,12,17,16,15,7>>, <<5,13,4,19,2,14,11,3,10,1,8,6,9,12,18,16,17,15,7>>, <<5,13,4,19,2,14,11,3,10,1,8,6,9,12,18,16,17,15,7,20>>, <<21,4,5,2,11,9,14,10,6,3,13,1,19,8,18,12,16,17,15,7,20>>, <<21,4,5,2,11,9,14,10,6,3,13,1,22,8,18,12,19,16,17,15,7,20>>, <<9,11,4,22,10,8,2,13,5,19,6,3,14,1,18,21,12,23,16,17,15,7,20>>, <<10,18,23,4,2,8,9,11,19,5,13,6,3,24,14,1,22,12,21,16,17,15,7,20>>>>,
  <<<<>>, <<1>>, <<2,1>>, <<3,2,1>>, <<1,3,4,2>>, <<1,5,3,4,2>>, <<1,5,6,3,4,2>>, <<1,6,7,3,5,4,2>>, <<1,6,2,7,8,5,4,3>>, <<6,1,2,7,4,9,5,8,3>>, <<1,10,9,2,6,7,4,5,8,3>>, <<1,11,10,2,6,7,4,5,9,8,3>>, <<1,12,10,6,2,7,4,11,5,9,8,3>>, <<1,6,10,13,7,2,4,11,12,5,9,8,3>>, <<12,11,1,6,14,4,2,7,10,13,5,9,8,3>>, <<12,11,1,6,14,4,2,7,10,13,5,9,8,3,15>>, <<6,1,10,2,14,13,3,11,4,7,12,15,16,9,8,5>>, <<11,1,3,2,10,16,14,6,12,4,7,13,8,17,9,15,5>>, <<18,9,3,11,1,2,16,12,13,6,14,4,7,17,8,10,15,5>>, <<19,9,3,11,1,2,17,12,13,6,14,4,7,8,18,16,10,15,5>>, <<20,9,3,11,1,2,17,12,13,6,14,4,7,8,19,16,10,18,15,5>>, <<2,11,3,12,21,13,1,9,14,20,19,6,8,4,7,17,16,10,18,15,5>>, <<17,2,3,14,11,22,9,1,12,21,7,19,6,8,4,13,20,16,10,18,15,5>>, <<14,2,3,22,11,23,9,1,17,4,7,12,20,6,21,8,13,19,16,10,18,15,5>>, <<19,2,3,9,14,24,22,17,1,11,4,7,12,21,6,23,8,13,20,16,10,18,15,5>>>>,
  <<<<>>, <<1>>, <<2,1>>, <<2,3,1>>, <<2,3,4,1>>, <<3,4,5,2,1>>, <<6,4,3,5,2,1>>, <<5,4,7,3,6,2,1>>, <<6,4,5,1,3,7,8,2>>, <<7,8,5,1,3,6,9,4,2>>, <<7,5,9,10,1,8,6,3,4,2>>, <<10,8,6,9,11,1,7,5,3,4,2>>, <<11,9,7,1,10,8,6,12,5,3,4,2>>, <<6,9,10,12,7,1,8,11,13,5,3,4,2>>, <<7,6,10,8,13,9,1,11,12,14,5,3,4,2>>, <<7,6,10,8,14,9,1,11,13,15,5,12,3,4,2>>, <<1,7,8,9,15,6,10,11,13,14,2,5,12,16,4,3>>, <<1,11,9,10,4,16,8,6,14,13,15,2,5,12,17,7,3>>, <<1,11,9,10,4,17,8,6,13,14,18,15,2,16,12,5,7,3>>, <<1,13,16,18,9,4,11,8,6,15,17,19,12,2,14,10,5,7,3>>, <<1,15,11,14,17,13,4,19,9,8,6,2,18,16,12,20,10,5,7,3>>, <<1,14,13,17,18,15,4,20,9,8,11,12,16,2,19,6,21,10,5,7,3>>, <<15,1,13,14,18,4,20,16,21,9,8,11,12,17,2,19,6,22,10,5,7,3>>, <<21,2,14,1,4,15,16,13,17,22,9,8,11,12,18,19,20,6,23,10,5,7,3>>, <<22,2,14,1,4,19,17,13,18,23,9,8,11,16,15,12,20,21,6,24,10,5,7,3>>>>,
  <<<<>>, <<1>>, <<2,1>>, <<2,1,3>>, <<4,3,2,1>>, <<4,3,2,1,5>>, <<6,2,3,4,1,5>>, <<6,2,3,4,1,5,7>>, <<8,2,7,3,5,6,4,1>>, <<8,2,7,3,5,6,4,1,9>>, <<2,10,7,4,3,5,6,8,1,9>>, <<3,6,10,2,4,11,7,5,8,1,9>>, <<3,6,11,2,4,10,7,5,12,8,1,9>>, <<11,10,4,3,12,2,6,7,5,13,8,1,9>>, <<11,10,4,3,12,2,6,7,5,13,8,1,9,14>>, <<12,10,4,3,13,2,6,7,5,15,11,8,1,9,14>>, <<6,15,14,10,16,12,3,2,4,7,13,5,9,11,8,1>>, <<12,8,10,15,3,17,13,6,2,4,7,14,5,9,11,16,1>>, <<12,8,10,15,3,17,13,6,2,4,7,14,5,9,11,16,1,18>>, <<11,5,19,8,15,14,3,17,6,2,4,12,7,9,13,10,16,1,18>>, <<11,5,19,8,15,14,3,20,6,2,4,12,7,9,13,10,17,16,1,18>>, <<19,3,7,9,20,11,8,5,15,13,21,6,2,4,12,14,10,17,16,1,18>>, <<11,9,3,20,12,13,7,21,4,5,19,15,22,6,2,8,14,10,17,16,1,18>>, <<11,9,3,21,12,13,7,22,4,5,20,15,19,6,2,8,14,23,10,17,16,1,18>>, <<11,9,3,22,12,13,7,23,4,5,20,15,19,6,2,8,14,24,10,17,21,16,1,18>>>>,
  <<<<>>, <<1>>, <<2,1>>, <<3,2,1>>, <<3,4,2,1>>, <<2,5,4,3,1>>, <<5,2,4,6,3,1>>, <<6,2,4,7,5,3,1>>, <<7,2,4,8,6,5,3,1>>, <<8,4,3,2,9,7,5,6,1>>, <<8,9,7,4,3,5,2,10,6,1>>, <<9,7,2,10,8,3,5,4,11,6,1>>, <<9,7,2,11,8,3,5,4,12,10,6,1>>, <<9,7,2,12,8,3,5,4,13,11,10,6,1>>, <<2,8,11,5,7,3,9,13,4,14,12,10,6,1>>, <<2,8,11,5,7,3,12,14,9,4,15,13,10,6,1>>, <<16,5,7,12,13,11,3,8,15,9,4,1,14,10,6,2>>, <<17,11,3,13,7,14,16,5,8,6,9,4,1,15,10,12,2>>, <<17,15,11,3,18,13,14,16,10,7,5,8,6,9,4,1,12,2>>, <<14,15,19,4,13,10,18,3,17,11,7,5,16,6,9,8,1,12,2>>, <<14,20,9,15,10,19,4,6,3,18,13,16,7,5,17,11,8,1,12,2>>, <<14,21,9,15,10,20,4,6,3,18,13,16,7,5,17,11,8,1,19,12,2>>, <<14,22,9,15,10,21,4,6,3,20,13,16,7,5,18,11,17,8,1,19,12,2>>, <<14,23,9,15,10,22,4,6,3,21,13,16,7,5,18,11,17,8,1,20,19,12,2>>, <<15,24,10,22,13,23,4,6,9,3,21,14,18,7,5,16,11,17,8,1,20,19,12,2>>>>,
  <<<<>>, <<1>>, <<2,1>>, <<2,1,3>>, <<4,3,1,2>>, <<4,3,1,2,5>>, <<4,1,3,6,2,5>>, <<4,3,1,7,6,2,5>>, <<3,5,8,1,7,6,2,4>>, <<3,5,8,1,2,7,6,9,4>>, <<3,5,8,1,2,7,6,9,4,10>>, <<7,3,6,5,8,2,1,9,11,4,10>>, <<8,5,7,3,6,9,2,1,12,11,4,10>>, <<9,6,2,5,3,7,8,13,1,11,12,4,10>>, <<9,6,2,5,3,7,8,14,1,12,11,13,4,10>>, <<9,6,2,5,3,7,8,15,1,13,11,12,14,4,10>>, <<13,2,5,10,6,9,3,16,8,14,1,15,11,12,4,7>>, <<10,15,2,5,14,9,3,6,16,8,13,1,4,11,12,17,7>>, <<2,15,11,3,14,9,12,13,10,5,6,16,8,4,1,17,18,7>>, <<2,15,11,3,14,9,12,13,10,5,6,16,8,4,1,17,18,7,19>>, <<9,15,16,12,1,10,3,13,14,11,5,6,17,8,4,2,18,20,7,19>>, <<3,4,17,13,1,10,9,11,14,15,12,5,6,16,8,18,2,21,20,7,19>>, <<3,4,18,14,1,11,9,12,16,10,8,13,5,6,17,15,22,2,20,21,7,19>>, <<3,4,23,17,1,11,9,12,18,10,8,14,16,5,6,13,15,20,2,21,22,7,19>>, <<3,4,24,17,1,11,9,12,18,10,8,14,16,5,6,13,15,20,2,22,21,23,7,19>>>>,
  <<<<>>, <<1>>, <<2,1>>, <<2,3,1>>, <<3,4,1,2>>, <<4,5,3,1,2>>, <<6,3,5,4,1,2>>, <<3,7,5,6,4,1,2>>, <<3,2,5,7,8,6,1,4>>, <<3,5,7,8,1,9,6,2,4>>, <<6,10,5,7,3,9,1,8,2,4>>, <<11,6,7,5,9,3,10,1,8,2,4>>, <<12,6,11,5,9,10,7,3,1,8,2,4>>, <<13,6,12,5,9,10,7,3,1,8,11,2,4>>, <<14,9,13,7,12,10,6,5,3,1,8,11,2,4>>, <<7,10,14,15,12,9,6,13,5,3,1,8,11,2,4>>, <<13,15,14,10,6,4,7,9,12,5,3,1,16,11,2,8>>, <<13,2,14,10,6,4,7,9,12,5,16,1,17,11,15,3,8>>, <<6,2,9,14,13,7,4,18,11,10,16,12,5,17,1,15,3,8>>, <<6,2,9,17,13,7,4,19,11,10,16,12,5,14,18,1,15,3,8>>, <<6,2,9,19,18,7,4,20,13,10,11,17,12,16,14,5,1,15,3,8>>, <<13,4,6,2,20,17,9,19,7,21,14,16,11,18,12,10,5,1,15,3,8>>, <<6,13,4,21,14,2,20,18,9,12,7,22,16,17,11,19,10,5,1,15,3,8>>, <<6,13,4,22,14,2,20,18,9,12,7,23,16,17,11,19,10,5,1,15,21,3,8>>, <<4,16,12,2,11,18,6,23,19,9,13,7,24,14,22,17,20,10,5,1,15,21,3,8>>>>,
  <<<<>>, <<1>>, <<1,2>>, <<1,3,2>>, <<4,1,2,3>>, <<2,1,4,5,3>>, <<5,1,4,2,6,3>>, <<6,1,4,2,5,7,3>>, <<4,6,1,7,2,8,3,5>>, <<1,7,4,6,3,2,8,9,5>>, <<7,1,6,9,4,2,8,3,10,5>>, <<7,8,1,9,6,4,2,10,3,11,5>>, <<7,8,1,9,6,4,2,11,3,10,12,5>>, <<2,9,1,11,6,8,7,4,12,3,10,13,5>>, <<2,7,6,12,1,11,9,8,4,13,3,10,14,5>>, <<7,13,11,2,6,1,12,9,8,4,14,3,10,15,5>>, <<13,9,11,12,2,7,1,6,14,8,4,15,3,16,5,10>>, <<14,9,12,13,2,15,7,1,6,11,8,4,5,3,16,17,10>>, <<15,3,9,14,7,11,17,2,1,6,12,8,13,4,16,5,18,10>>, <<11,17,12,7,18,15,16,3,2,1,6,14,8,13,4,9,5,19,10>>, <<15,7,18,12,19,11,4,17,3,2,1,6,14,16,13,8,9,5,20,10>>, <<15,7,18,12,20,11,4,17,3,2,1,6,14,16,13,8,9,5,19,21,10>>, <<14,20,18,4,15,12,13,7,21,3,11,2,1,6,17,16,8,9,5,19,22,10>>, <<14,20,21,4,18,12,13,7,22,3,11,2,1,6,17,15,16,8,9,5,19,23,10>>, <<6,21,20,4,22,12,14,7,23,3,18,2,13,1,17,11,15,16,8,9,5,19,24,10>>>>,
  <<<<>>, <<1>>, <<1,2>>, <<3,1,2>>, <<2,3,1,4>>, <<5,1,3,2,4>>, <<1,3,6,5,2,4>>, <<1,3,7,6,5,2,4>>, <<1,4,6,3,7,5,2,8>>, <<4,1,6,7,9,2,5,3,8>>, <<2,1,10,5,6,9,7,4,3,8>>, <<2,1,11,5,6,10,7,4,9,3,8>>, <<5,12,2,10,1,7,11,6,4,9,3,8>>, <<13,7,2,10,1,11,12,5,6,4,9,3,8>>, <<12,13,2,11,1,14,7,10,5,6,4,9,3,8>>, <<7,10,2,15,13,14,12,1,11,5,6,4,9,3,8>>, <<11,10,2,13,14,7,15,8,1,12,5,6,4,9,3,16>>, <<11,10,2,14,15,7,3,8,1,12,5,17,13,4,9,6,16>>, <<15,2,18,3,10,4,11,9,12,8,1,14,5,17,13,7,6,16>>, <<15,2,17,3,10,4,19,9,14,8,1,12,13,18,5,11,7,6,16>>, <<15,2,17,3,10,4,20,9,14,8,1,12,13,19,5,11,7,18,6,16>>, <<5,14,9,17,3,19,4,2,21,15,8,1,12,13,20,10,11,7,18,6,16>>, <<5,15,14,17,9,3,4,19,2,22,21,8,1,12,13,20,10,11,7,18,6,16>>, <<12,4,17,5,23,9,21,3,13,15,20,2,14,22,8,1,19,10,11,7,18,6,16>>, <<13,4,9,12,5,17,22,19,3,14,8,21,2,15,23,24,1,20,10,11,7,18,6,16>>>>,
  <<<<>>, <<1>>, <<2,1>>, <<2,1,3>>, <<4,3,1,2>>, <<4,3,1,2,5>>, <<3,6,4,1,2,5>>, <<7,3,4,6,1,2,5>>, <<7,6,5,8,4,2,1,3>>, <<1,6,5,9,4,8,7,2,3>>, <<1,6,5,9,4,8,7,2,3,10>>, <<7,1,5,9,6,11,8,4,2,3,10>>, <<9,1,5,12,7,6,11,8,4,2,3,10>>, <<13,7,1,9,11,12,6,5,8,4,2,3,10>>, <<13,11,1,14,7,9,12,6,5,8,4,2,3,10>>, <<13,11,1,14,7,9,12,6,5,8,4,2,3,10,15>>, <<13,11,10,7,12,1,15,9,3,16,5,8,4,14,2,6>>, <<15,12,10,7,13,1,2,9,16,17,11,5,8,4,14,3,6>>, <<4,13,12,7,14,1,2,10,9,17,18,11,5,16,15,8,3,6>>, <<4,13,12,7,14,1,2,10,9,17,18,11,5,16,15,8,3,6,19>>, <<7,16,4,17,2,13,14,1,10,12,9,18,20,11,5,15,8,3,6,19>>, <<7,5,4,18,2,13,14,1,16,12,9,21,20,11,17,10,15,8,3,6,19>>, <<14,17,22,7,21,4,11,2,16,5,1,13,18,9,20,12,10,15,8,3,6,19>>, <<18,16,23,20,11,7,4,17,2,13,5,1,14,21,9,22,12,10,15,8,3,6,19>>, <<24,16,7,18,9,13,4,21,14,2,20,11,5,1,22,17,23,12,10,15,8,3,6,19>>>>,
  <<<<>>, <<1>>, <<1,2>>, <<1,3,2>>, <<1,3,2,4>>, <<1,3,2,5,4>>, <<1,5,2,3,6,4>>, <<6,1,2,5,3,7,4>>, <<2,1,5,7,6,3,4,8>>, <<6,5,2,1,4,7,3,9,8>>, <<2,9,7,6,1,4,3,5,10,8>>, <<2,10,3,7,1,6,4,9,5,11,8>>, <<2,3,9,7,4,1,6,11,10,5,12,8>>, <<9,7,3,10,1,6,4,2,12,11,5,13,8>>, <<3,11,4,9,10,1,6,7,2,13,12,5,14,8>>, <<4,12,9,3,11,6,1,10,7,2,14,13,5,15,8>>, <<4,13,9,3,12,6,1,10,7,2,11,16,14,5,8,15>>, <<4,10,14,1,3,13,6,9,12,7,2,11,8,16,5,17,15>>, <<4,16,14,1,3,13,6,9,12,7,2,11,8,5,17,10,18,15>>, <<17,18,16,12,3,6,1,5,4,14,13,7,2,11,8,9,10,19,15>>, <<18,8,17,13,3,6,1,5,4,19,14,12,7,2,11,16,9,10,20,15>>, <<8,18,19,1,17,6,20,14,5,4,11,13,2,12,7,3,16,9,10,21,15>>, <<19,17,21,1,8,6,7,20,18,5,4,11,14,2,12,13,3,16,9,10,22,15>>, <<21,20,8,7,19,14,6,17,1,12,22,5,4,11,2,18,13,3,16,9,10,23,15>>, <<22,21,8,7,20,12,6,14,1,18,23,2,5,4,11,17,19,13,3,16,9,10,24,15>>>>,
  <<<<>>, <<1>>, <<1,2>>, <<3,1,2>>, <<3,2,1,4>>, <<5,2,3,1,4>>, <<2,5,3,6,1,4>>, <<2,6,3,7,5,1,4>>, <<2,7,3,4,5,6,1,8>>, <<3,9,7,1,4,5,6,2,8>>, <<3,10,4,9,1,6,5,7,2,8>>, <<6,4,11,5,9,3,10,1,7,2,8>>, <<6,4,12,5,9,3,11,1,7,10,2,8>>, <<6,4,13,5,9,3,12,1,7,10,11,2,8>>, <<6,4,14,5,12,3,13,1,9,7,10,11,2,8>>, <<13,15,12,5,14,6,3,4,1,9,7,10,11,2,8>>, <<3,14,13,8,15,12,6,5,4,1,9,7,10,11,2,16>>, <<3,12,14,8,2,13,6,5,17,1,15,9,7,10,11,4,16>>, <<14,18,15,8,6,10,7,2,3,12,5,17,1,11,9,13,4,16>>, <<10,8,6,14,19,9,17,7,2,3,15,11,12,5,18,1,13,4,16>>, <<10,8,6,15,17,9,14,20,2,3,19,11,18,12,5,7,1,13,4,16>>, <<10,8,6,15,17,9,14,21,2,3,20,11,19,12,5,7,1,18,13,4,16>>, <<10,8,6,15,17,9,14,22,2,3,21,11,19,12,5,7,1,18,13,20,4,16>>, <<10,8,6,15,17,9,14,23,2,3,22,11,19,12,5,7,1,18,13,20,21,4,16>>, <<10,8,6,5,19,24,15,17,2,3,14,23,11,22,12,9,7,1,18,13,20,21,4,16>>>>,
  <<<<>>, <<1>>, <<1,2>>, <<1,3,2>>, <<1,3,2,4>>, <<5,1,2,3,4>>, <<2,1,6,5,3,4>>, <<1,5,7,2,6,3,4>>, <<1,6,4,2,5,8,3,7>>, <<1,9,6,4,2,8,3,5,7>>, <<1,6,3,10,4,2,8,9,5,7>>, <<1,2,3,6,9,11,8,4,10,5,7>>, <<1,2,3,6,10,12,8,4,9,11,5,7>>, <<1,2,6,3,13,11,10,8,4,9,12,5,7>>, <<1,2,6,3,14,10,12,11,8,4,9,13,5,7>>, <<6,15,1,2,11,3,13,12,10,8,4,9,14,5,7>>, <<6,7,1,2,12,3,16,10,13,11,8,4,9,15,5,14>>, <<3,15,1,2,13,16,7,6,11,17,12,8,4,9,5,10,14>>, <<3,5,1,2,13,16,7,6,11,15,12,8,4,18,9,17,10,14>>, <<17,2,11,3,12,5,1,4,7,6,13,19,9,15,16,8,18,10,14>>, <<18,2,11,3,12,5,1,4,7,6,13,20,9,15,16,8,17,19,10,14>>, <<1,11,19,13,3,12,5,2,4,7,6,21,16,9,18,15,8,17,20,10,14>>, <<1,12,20,22,3,13,5,2,4,7,11,6,16,18,9,19,15,8,17,21,10,14>>, <<12,5,23,1,13,21,3,19,16,2,4,7,11,6,9,20,18,15,8,17,22,10,14>>, <<12,5,24,1,13,22,3,20,16,2,4,7,11,6,9,18,21,19,15,8,17,23,10,14>>>>,
  <<<<>>, <<1>>, <<2,1>>, <<3,2,1>>, <<4,3,2,1>>, <<4,5,2,3,1>>, <<5,2,6,4,3,1>>, <<7,6,5,2,4,3,1>>, <<1,7,5,6,8,4,3,2>>, <<8,1,6,3,7,9,4,5,2>>, <<8,1,6,9,3,4,10,7,5,2>>, <<11,1,6,10,3,8,9,4,7,5,2>>, <<9,12,6,1,11,10,3,8,4,7,5,2>>, <<11,13,6,10,1,9,3,12,8,4,7,5,2>>, <<3,14,6,11,1,10,12,9,13,8,4,7,5,2>>, <<9,1,3,13,11,12,6,15,10,14,8,4,7,5,2>>, <<10,1,16,14,12,13,6,2,9,11,15,8,4,7,5,3>>, <<16,1,17,15,12,14,6,2,9,11,5,8,13,4,7,10,3>>, <<17,1,18,7,12,16,6,2,9,11,5,8,13,4,15,14,10,3>>, <<7,6,11,1,18,12,4,19,17,2,9,15,5,16,13,8,14,10,3>>, <<6,7,4,12,1,11,18,19,20,17,2,9,13,16,5,15,8,14,10,3>>, <<6,7,4,12,1,11,17,16,21,18,2,9,13,19,5,20,15,8,14,10,3>>, <<12,5,4,18,1,6,7,17,11,22,19,2,16,13,20,9,21,15,8,14,10,3>>, <<1,5,7,16,11,18,6,2,19,17,13,23,20,21,12,4,9,22,15,8,14,10,3>>, <<11,5,13,1,17,22,19,7,12,6,2,20,18,21,24,16,4,9,23,15,8,14,10,3>>>>,
  <<<<>>, <<1>>, <<2,1>>, <<2,3,1>>, <<3,2,4,1>>, <<4,3,2,5,1>>, <<5,3,2,4,6,1>>, <<6,3,2,5,4,7,1>>, <<7,3,8,5,6,4,1,2>>, <<1,3,8,5,6,4,7,9,2>>, <<1,5,9,6,3,8,4,7,10,2>>, <<1,6,10,9,5,3,4,8,7,11,2>>, <<1,11,9,6,4,5,3,10,8,7,12,2>>, <<12,9,1,3,6,4,10,5,11,8,7,13,2>>, <<11,1,6,13,3,9,4,10,5,12,8,7,14,2>>, <<11,1,6,14,3,9,4,10,5,12,8,7,13,15,2>>, <<9,4,6,1,15,16,10,12,11,5,14,8,7,13,2,3>>, <<9,16,6,1,2,17,11,15,12,10,5,14,8,7,13,4,3>>, <<9,12,11,18,2,1,6,17,13,15,16,10,5,7,8,14,4,3>>, <<9,11,12,19,2,1,6,18,17,13,8,16,10,5,7,15,14,4,3>>, <<11,13,9,12,20,2,6,1,19,17,16,8,7,10,5,18,15,14,4,3>>, <<11,17,6,12,2,16,13,21,1,20,5,18,8,7,10,9,19,15,14,4,3>>, <<19,17,7,6,12,2,16,13,22,1,11,21,5,10,8,18,9,20,15,14,4,3>>, <<18,6,20,8,7,13,2,12,17,23,1,11,22,5,10,16,19,9,21,15,14,4,3>>, <<17,6,10,8,7,18,2,12,5,24,13,1,11,23,21,19,16,20,9,22,15,14,4,3>>>>,
  <<<<>>, <<1>>, <<1,2>>, <<1,2,3>>, <<2,1,3,4>>, <<2,5,3,1,4>>, <<2,5,3,1,4,6>>, <<2,7,3,1,5,4,6>>, <<2,4,3,1,5,7,6,8>>, <<1,3,6,4,9,7,5,2,8>>, <<1,3,6,4,10,7,5,2,9,8>>, <<1,6,10,5,3,7,11,4,2,9,8>>, <<1,6,10,5,3,7,11,4,2,9,8,12>>, <<1,10,5,13,6,3,11,7,4,2,9,8,12>>, <<1,10,5,13,6,3,11,7,4,2,9,14,8,12>>, <<1,10,5,14,6,3,11,7,4,2,9,13,15,8,12>>, <<1,14,5,8,6,3,13,7,4,11,10,2,9,16,12,15>>, <<9,12,13,1,2,3,14,11,6,5,8,7,16,17,10,4,15>>, <<9,12,13,1,2,3,14,11,6,5,8,7,16,18,10,4,17,15>>, <<18,19,3,9,1,13,2,10,14,6,11,12,5,16,7,8,4,17,15>>, <<18,7,3,10,1,16,2,13,9,20,6,11,12,5,19,14,8,4,17,15>>, <<19,2,13,7,1,10,21,3,20,9,18,6,11,12,5,16,14,8,4,17,15>>, <<20,2,13,7,1,10,22,3,21,9,18,6,11,12,5,16,14,8,19,4,17,15>>, <<21,2,13,7,1,10,23,3,22,9,18,6,11,12,5,16,14,8,19,20,4,17,15>>, <<21,2,13,7,1,10,23,3,22,9,18,6,11,12,5,16,14,8,19,20,4,17,15,24>>>>,
  <<<<>>, <<1>>, <<2,1>>, <<2,1,3>>, <<2,3,4,1>>, <<2,3,4,5,1>>, <<2,3,4,5,1,6>>, <<3,4,5,2,7,1,6>>, <<5,4,6,3,7,2,8,1>>, <<5,4,6,3,9,8,7,2,1>>, <<7,9,4,6,8,5,10,3,2,1>>, <<7,9,4,6,8,5,10,3,2,1,11>>, <<12,7,8,4,6,9,5,10,3,2,1,11>>, <<12,7,9,8,4,5,10,6,13,3,2,1,11>>, <<13,14,10,8,4,5,7,9,6,12,3,2,1,11>>, <<14,12,15,8,4,5,7,9,6,10,13,3,2,1,11>>, <<1,12,14,9,5,8,4,7,11,6,10,15,3,13,16,2>>, <<1,15,14,12,5,8,16,7,9,11,6,10,17,3,13,4,2>>, <<1,15,12,3,11,17,5,14,8,7,9,13,16,10,18,6,4,2>>, <<13,19,1,18,16,5,12,15,11,8,7,9,14,17,10,3,6,4,2>>, <<15,20,1,19,17,5,16,10,11,8,7,9,13,14,18,12,3,6,4,2>>, <<19,21,1,20,18,5,17,10,16,8,7,9,13,14,15,11,12,3,6,4,2>>, <<19,21,1,20,18,5,17,10,16,8,7,9,13,14,15,11,12,3,6,4,2,22>>, <<5,19,13,1,18,21,23,17,20,9,15,10,7,16,8,14,11,12,3,6,4,2,22>>, <<5,20,16,1,13,24,23,19,18,21,9,8,10,7,17,15,14,11,12,3,6,4,2,22>>>>,
  <<<<>>, <<1>>, <<2,1>>, <<3,2,1>>, <<4,3,2,1>>, <<5,2,4,3,1>>, <<5,6,2,4,3,1>>, <<6,2,7,5,4,3,1>>, <<7,8,1,5,4,6,3,2>>, <<3,1,8,9,7,4,6,5,2>>, <<6,9,7,1,3,10,4,8,5,2>>, <<4,10,6,7,1,3,11,9,8,5,2>>, <<6,4,7,11,12,1,9,3,10,8,5,2>>, <<7,4,9,10,12,13,1,6,3,11,8,5,2>>, <<7,4,9,10,13,14,1,6,3,11,8,12,5,2>>, <<7,4,9,10,13,14,1,6,3,11,8,12,5,2,15>>, <<1,16,14,9,15,10,7,11,2,6,3,13,8,12,5,4>>, <<9,16,1,5,13,7,11,17,15,2,6,3,14,8,12,10,4>>, <<5,1,11,13,12,9,16,7,18,17,14,2,6,3,8,15,10,4>>, <<5,1,12,14,13,9,8,7,19,18,11,16,2,6,3,17,15,10,4>>, <<16,1,13,17,14,9,8,7,20,19,12,11,3,2,6,5,18,15,10,4>>, <<17,6,8,14,1,12,18,9,7,21,20,13,16,3,2,11,5,19,15,10,4>>, <<18,6,8,19,1,12,2,9,7,16,21,13,17,14,3,22,11,5,20,15,10,4>>, <<16,9,2,3,1,6,8,13,12,7,17,22,20,18,14,19,23,11,5,21,15,10,4>>, <<9,8,1,17,14,3,23,6,2,21,18,13,16,19,12,7,20,24,11,5,22,15,10,4>>>>,
  <<<<>>, <<1>>, <<1,2>>, <<3,1,2>>, <<2,1,4,3>>, <<5,4,2,1,3>>, <<6,4,2,1,5,3>>, <<7,4,2,1,6,5,3>>, <<2,4,8,3,1,7,5,6>>, <<5,4,8,7,9,2,3,1,6>>, <<5,4,8,7,10,2,3,1,9,6>>, <<11,8,4,10,3,7,2,5,1,9,6>>, <<12,8,4,11,3,7,2,5,1,10,9,6>>, <<13,12,4,11,8,2,7,3,5,1,10,9,6>>, <<12,8,7,14,2,11,13,4,3,5,1,10,9,6>>, <<15,14,13,7,8,2,12,11,4,3,5,1,10,9,6>>, <<6,15,14,7,8,2,12,16,4,3,5,1,13,10,9,11>>, <<9,6,14,8,7,10,17,16,12,2,15,4,13,3,5,1,11>>, <<9,6,14,8,7,10,18,16,12,2,15,4,13,3,5,1,17,11>>, <<16,6,15,8,7,10,19,18,12,2,5,4,13,14,3,9,1,17,11>>, <<10,6,3,8,7,20,12,18,19,15,2,16,4,13,14,5,9,1,17,11>>, <<12,8,14,3,15,6,16,21,13,10,19,18,4,2,20,7,5,9,1,17,11>>, <<12,8,14,3,15,6,16,22,13,10,19,18,4,2,21,7,5,9,1,20,17,11>>, <<23,8,15,3,18,6,22,12,13,14,10,21,16,4,2,19,7,5,9,1,20,17,11>>, <<19,12,8,16,2,24,18,6,13,14,15,10,21,23,4,3,22,7,5,9,1,20,17,11>>>>
>>

\* random.seed(BaseSeed + pass_num); random.shuffle(x)
seeded_shuffle(x, pass_num) ==
    LET perm == rebalance_shuffle_table[pass_num][Len(x) + 1]
    IN [k \in DOMAIN x |-> x[perm[k]]]

RbInit ==
    [shift_counts |-> <<>>, working_employees |-> <<>>, min_target |-> 0,
     max_target |-> 0, pass_num |-> 0, over_assigned |-> <<>>,
     under_assigned |-> <<>>, over_idx |-> 1, over_emp_shifts |-> <<>>,
     shift_idx |-> 1, transfers_made |-> 0, total_transfers |-> 0,
     input_assignments |-> <<>>, run |-> 1, first_output |-> <<>>,
     first_transfers |-> 0]

\* threshold_adjustment = max(0, 2 - (pass_num // 10))
threshold_adjustment(pass_num) ==
    IF 2 - (pass_num \div 10) > 0 THEN 2 - (pass_num \div 10) ELSE 0

current_max_target == rb.max_target + threshold_adjustment(rb.pass_num)
current_min_target == rb.min_target - threshold_adjustment(rb.pass_num)

\* x.sort(key=lambda x: x[1], reverse=True) on (emp, deviation) pairs
sort_by_deviation(pairs) ==
    Values(SortPairs(<<>>, [i \in DOMAIN pairs |-> <<<<0 - pairs[i][2]>>, pairs[i][1]>>]))

over_list(counts, working, max_t) ==
    LET w == FilterSeq(working, {n \in Range(working) : counts[n] > max_t})
    IN sort_by_deviation([i \in DOMAIN w |-> <<w[i], counts[w[i]] - max_t>>])

under_list(counts, working, max_t, min_t) ==
    LET w == FilterSeq(working, {n \in Range(working) :
                                   ~(counts[n] > max_t) /\ counts[n] < min_t})
    IN sort_by_deviation([i \in DOMAIN w |-> <<w[i], min_t - counts[w[i]]>>])

\* a working list that keeps the employees without a shift
everyone_working(counts) == names_of(employees)

\* working_employees = [emp for emp in employees if shift_counts[emp.name] > 0]
working_employees_of(counts) ==
    FilterSeq(names_of(employees), {n \in Names : counts[n] > 0})

\* shift_counts / working_employees / min_target / max_target at entry
RebalanceInit ==
    /\ pc = "rb_init"
    /\ LET counts == [n \in DOMAIN shift_assignments |-> Len(shift_assignments[n])]
           working == working_employees_of(counts)
           total_shifts == SumSeq([i \in DOMAIN employees |-> counts[employees[i].name]])
           avg == IF working = <<>> THEN 0 ELSE total_shifts \div Len(working)
       IN /\ rb' = [rb EXCEPT
                      !.shift_counts = counts,
                      !.working_employees = working,
                      !.min_target = avg - 1,
                      !.max_target = avg + 2,
                      !.pass_num = 0,
                      !.total_transfers = 0,
                      !.input_assignments = shift_assignments]
          /\ pc' = IF working = <<>> THEN "done" ELSE "rb_pass"
    /\ UNCHANGED <<inputs, shift_assignments, tables, asg, errors, warnings,
                   plan_inputs, pl>>

\* for pass_num in range(max_passes): over_assigned, under_assigned;
\* if not over_assigned or not under_assigned: break
BeginPass ==
    /\ pc = "rb_pass"
    /\ IF rb.pass_num >= max_passes
       THEN /\ pc' = "done"
            /\ rb' = rb
       ELSE LET over == over_list(rb.shift_counts, rb.working_employees,
                                  current_max_target)
                under == under_list(rb.shift_counts, rb.working_employees,
                                    current_max_target, current_min_target)
            IN /\ rb' = [rb EXCEPT !.over_assigned = over,
                                   !.under_assigned = under,
                                   !.transfers_made = 0,
                                   !.over_idx = 1]
               /\ pc' = IF over = <<>> \/ under = <<>> THEN "done" ELSE "rb_over"
    /\ UNCHANGED <<inputs, shift_assignments, tables, asg, errors, warnings,
                   plan_inputs, pl>>

over_emp == rb.over_assigned[rb.over_idx]

\* for over_emp, _ in over_assigned: over_emp_shifts = list(items), shuffled
BeginOver ==
    /\ pc = "rb_over"
    /\ rb.over_idx <= Len(rb.over_assigned)
    /\ rb' = [rb EXCEPT
                !.over_emp_shifts =
                    IF rb.pass_num > 0
                    THEN seeded_shuffle(shift_assignments[over_emp], rb.pass_num)
                    ELSE shift_assignments[over_emp],
                !.shift_idx = 1]
    /\ pc' = "rb_shift"
    /\ UNCHANGED <<inputs, shift_assignments, tables, asg, errors, warnings,
                   plan_inputs, pl>>

\* the pass is over: if transfers_made == 0: break
EndPass ==
    /\ pc = "rb_over"
    /\ rb.over_idx > Len(rb.over_assigned)
    /\ IF rb.transfers_made = 0
       THEN /\ pc' = "done"
            /\ rb' = rb
       ELSE /\ pc' = "rb_pass"
            /\ rb' = [rb EXCEPT !.pass_num = rb.pass_num + 1]
    /\ UNCHANGED <<inputs, shift_assignments, tables, asg, errors, warnings,
                   plan_inputs, pl>>

RECURSIVE first_skill(_)
\* skill_needed: the first non-"None" required_skill of shift_reqs, else None
first_skill(shift_reqs) ==
    IF shift_reqs = <<>> THEN NoneSkill
    ELSE IF Head(shift_reqs).required_skill # NoSkill
         THEN Head(shift_reqs).required_skill
         ELSE first_skill(Tail(shift_reqs))

\* a week lookup that finds no dates, so the sum is 0
current_week_hours_empty_week(n, date) == 0

\* current_week_hours of under_emp in the week of date
current_week_hours(n, date) ==
    LET week_dates == {i \in DOMAIN dates :
                          week_start_of(dates[i]) = week_start_of(date)
                          /\ HasDate(shift_assignments[n], dates[i])}
        idx == SortedSeq(week_dates)
    IN SumSeq([k \in DOMAIN idx |->
                 calculate_shift_hours(ShiftOn(shift_assignments[n], dates[idx[k]]),
                                       shifts)])

\* if date in vacation_dates_by_employee.get(under_emp.name, set()): continue
receiver_on_vacation(n, date) == date \in vacation_dates_by_employee(n)

\* a busy test that lets every receiver through
receiver_never_busy(n, date) == FALSE

\* a busy test on the employee instead of the date: whoever received a
\* shift in this call is busy
receiver_busy_once_served(n, date) ==
    \/ HasDate(shift_assignments[n], date)
    \/ Len(shift_assignments[n]) > Len(rb.input_assignments[n])

\* if date in shift_assignments[under_emp.name]: continue
receiver_busy(n, date) == HasDate(shift_assignments[n], date)

\* if skill_needed and skill_needed not in under_emp.skills: continue
receiver_lacks_skill(n, skill_needed) ==
    skill_needed # NoneSkill /\ skill_needed \notin employee_by_name(n).skills

\* if current_week_hours + shift_hours > under_emp.max_hours_per_week: continue
receiver_over_max(n, date, shift_hours) ==
    current_week_hours(n, date) + shift_hours
        > employee_by_name(n).max_hours_per_week * 60

\* if pass_num < 20: if ... > under_emp.weekly_target_hours: continue
receiver_over_target(n, date, shift_hours, pass_num) ==
    pass_num < 20 /\ current_week_hours(n, date) + shift_hours
                        > employee_by_name(n).weekly_target_hours * 60

can_receive(n, date, shift_id, skill_needed, pass_num) ==
    /\ ~receiver_on_vacation(n, date)
    /\ ~receiver_busy(n, date)
    /\ ~receiver_lacks_skill(n, skill_needed)
    /\ ~receiver_over_max(n, date, calculate_shift_hours(shift_id, shifts))
    /\ ~receiver_over_target(n, date, calculate_shift_hours(shift_id, shifts),
                             pass_num)

\* positions of under_assigned that accept the pair
receivers(date, shift_id) ==
    LET shift_reqs == reqs_of(requirements_for(date), shift_id) IN
    IF shift_reqs = <<>> THEN {}
    ELSE {k \in DOMAIN rb.under_assigned :
            can_receive(rb.under_assigned[k], date, shift_id,
                        first_skill(shift_reqs), rb.pass_num)}

cur_pair == rb.over_emp_shifts[rb.shift_idx]

\* after a pair: if shift_counts[over_emp.name] <= current_max_target: break
after_pair(counts) ==
    IF counts[over_emp] <= current_max_target
    THEN /\ pc' = "rb_over"
         /\ rb' = [rb EXCEPT !.shift_counts = counts,
                             !.over_idx = rb.over_idx + 1]
    ELSE /\ pc' = "rb_shift"
         /\ rb' = [rb EXCEPT !.shift_counts = counts,
                             !.shift_idx = rb.shift_idx + 1]

\* a pair with a replacement: the transfer
TransferShift ==
    /\ pc = "rb_shift"
    /\ rb.shift_idx <= Len(rb.over_emp_shifts)
    /\ receivers(cur_pair[1], cur_pair[2]) # {}
    /\ LET date == cur_pair[1]
           shift_id == cur_pair[2]
           k == CHOOSE j \in receivers(date, shift_id) :
                    \A m \in receivers(date, shift_id) : j <= m
           under_emp == rb.under_assigned[k]
           counts == [rb.shift_counts EXCEPT ![over_emp] = @ - 1,
                                             ![under_emp] = @ + 1]
       IN /\ shift_assignments' =
                 [shift_assignments EXCEPT
                     ![over_emp] = DictDel(@, date),
                     ![under_emp] = DictSet(@, date, shift_id)]
          /\ IF counts[over_emp] <= current_max_target
             THEN /\ pc' = "rb_over"
                  /\ rb' = [rb EXCEPT !.shift_counts = counts,
                                      !.transfers_made = rb.transfers_made + 1,
                                      !.total_transfers = rb.total_transfers + 1,
                                      !.over_idx = rb.over_idx + 1]
             ELSE /\ pc' = "rb_shift"
                  /\ rb' = [rb EXCEPT !.shift_counts = counts,
                                      !.transfers_made = rb.transfers_made + 1,
                                      !.total_transfers = rb.total_transfers + 1,
                                      !.shift_idx = rb.shift_idx + 1]
    /\ UNCHANGED <<inputs, tables, asg, errors, warnings, plan_inputs, pl>>

\* a pair with no requirement (continue) or no replacement
SkipShift ==
    /\ pc = "rb_shift"
    /\ rb.shift_idx <= Len(rb.over_emp_shifts)
    /\ receivers(cur_pair[1], cur_pair[2]) = {}
    /\ IF reqs_of(requirements_for(cur_pair[1]), cur_pair[2]) = <<>>
       THEN /\ pc' = "rb_shift"
            /\ rb' = [rb EXCEPT !.shift_idx = rb.shift_idx + 1]
       ELSE after_pair(rb.shift_counts)
    /\ UNCHANGED <<inputs, shift_assignments, tables, asg, errors, warnings,
                   plan_inputs, pl>>

\* over_emp's pairs are exhausted: next over_emp
EndOver ==
    /\ pc = "rb_shift"
    /\ rb.shift_idx > Len(rb.over_emp_shifts)
    /\ rb' = [rb EXCEPT !.over_idx = rb.over_idx + 1]
    /\ pc' = "rb_over"
    /\ UNCHANGED <<inputs, shift_assignments, tables, asg, errors, warnings,
                   plan_inputs, pl>>

--------------------------------------------------------------------------
(* Entry and exit of assign_shifts_to_employees, and the runs checked *)

\* shift_assignments = {emp.name: {} for emp in employees}
empty_assignments == [n \in Names |-> <<>>]

\* hours_per_week = defaultdict(float)
fresh_hours_per_week == [k \in Names \X WeekStarts |-> 0]

\* counters that survive from the previous call
stale_counter == shift_counts

\* total_hours = defaultdict(float); shift_counts = defaultdict(int);
\* consecutive_work_days = defaultdict(int)
fresh_counter == [n \in Names |-> 0]

\* last_work_date = {}
fresh_last_work_date == [n \in Names |-> NoDate]

\* the function is entered: its locals are created
EnterAssign ==
    /\ pc = "start"
    /\ shift_assignments' = empty_assignments
    /\ hours_per_week' = fresh_hours_per_week
    /\ total_hours' = fresh_counter
    /\ shift_counts' = fresh_counter
    /\ consecutive_work_days' = fresh_counter
    /\ last_work_date' = fresh_last_work_date
    /\ asg' = AsgInit
    /\ pc' = "date"
    /\ UNCHANGED <<inputs, errors, warnings, rb, plan_inputs, pl>>

\* rebalance_shift_assignments is called again on the assignment it returned
RebalanceAgain ==
    /\ pc = "done"
    /\ rb.run = 1
    /\ rb' = [RbInit EXCEPT !.run = 2, !.first_output = shift_assignments,
                            !.first_transfers = rb.total_transfers]
    /\ pc' = "rb_init"
    /\ UNCHANGED <<inputs, shift_assignments, tables, asg, errors, warnings,
                   plan_inputs, pl>>

\* assign_shifts_to_employees is called again with the same arguments
AssignAgain ==
    /\ pc = "done"
    /\ rb.run = 1
    /\ rb' = [rb EXCEPT !.run = 3, !.first_output = shift_assignments]
    /\ pc' = "start"
    /\ UNCHANGED <<inputs, shift_assignments, tables, asg, errors, warnings,
                   plan_inputs, pl>>

--------------------------------------------------------------------------
(* Inputs of the runs that are checked *)

Time(h, m) == <<[num |-> TRUE, val |-> h], [num |-> TRUE, val |-> m]>>

\* Shift(id, name, start, end, category): S1 09:00-17:00, S2 19:00-07:00
ShiftTable ==
    (1 :> [start |-> Time(9, 0), end |-> Time(17, 0)]) @@
    (2 :> [start |-> Time(19, 0), end |-> Time(7, 0)])

\* Employee(id, name, skills, weekly_target_hours, max_hours_per_week)
Employee(n, sk, target, max) ==
    [name |-> n, skills |-> sk, weekly_target_hours |-> target,
     max_hours_per_week |-> max]

Profiles == {<<{"X"}, 37, 48>>, <<{}, 37, 48>>, <<{"X"}, 8, 8>>}

EmployeeLists ==
    UNION {{[i \in 1..k |-> Employee(i, f[i][1], f[i][2], f[i][3])] :
              f \in [1..k -> Profiles]} : k \in 2..3}

\* CoverageRequirement(day_type, shift_id, required, required_skill)
Req(s, r, k) == [shift_id |-> s, required |-> r, required_skill |-> k]

SingleReqs == {Req(1, r, k) : r \in 1..MaxRequired, k \in {NoSkill, "X"}}

CoverageLists ==
    {<<q>> : q \in SingleReqs}
      \cup {<<Req(1, MaxRequired + 1, NoSkill)>>}
      \cup {<<Req(1, MaxRequired, "X"), Req(1, 1, "X")>>,
            <<Req(1, 1, "X"), Req(1, 1, NoSkill)>>,
            <<Req(2, 1, NoSkill), Req(1, 1, "X")>>}

DateList(first, n) == [i \in 1..n |-> first + i - 1]

\* vacation blocks: nobody; employee 2 away from the 4th date to the last;
\* employee 2 away for 7 dates from the 2nd
VacationOptions(ds) ==
    {<<>>,
     (2 :> SubSeq(ds, 4, Len(ds))),
     (2 :> SubSeq(ds, 2, 8))}

\* a shift that requires two different skills, one employee each, and
\* employees carrying one of the two
TwoSkillCases ==
    {<<<<Employee(1, {"X"}, 37, 48), Employee(2, {"X"}, 37, 48),
         Employee(3, {"Y"}, 37, 48)>>,
       <<Req(1, 1, "X"), Req(1, 1, "Y")>>>>,
     <<<<Employee(1, {"Y"}, 37, 48), Employee(2, {"X"}, 37, 48),
         Employee(3, {"X"}, 37, 48)>>,
       <<Req(1, 1, "X"), Req(1, 1, "Y")>>>>}

\* <<employees, coverage>> of the runs
ShiftCases == (EmployeeLists \X CoverageLists) \cup TwoSkillCases

\* Assignments handed straight to rebalance_shift_assignments: employee 1
\* (H) holds shift 1 from Monday to Thursday of five weeks, employee 2 (L)
\* on the Fridays and Saturdays and on the first two Sundays; k of L's last
\* dates belong to H instead, so that H holds 20 + k and L 12 - k shifts.
ReliefEmployees == <<Employee(1, {}, 37, 48), Employee(2, {}, 37, 48)>>
ReliefCoverage == <<Req(1, 1, NoSkill)>>
ReliefDatesH(k) ==
    {7 * w + d : w \in 0..4, d \in 0..3} \cup {32 + j : j \in 0..(k - 1)}
ReliefDatesL(k) ==
    ({7 * w + d : w \in 0..4, d \in 4..5} \cup {6, 13}) \ ReliefDatesH(k)
ReliefAssignment(k) ==
    LET h == SortedSeq(ReliefDatesH(k))
        l == SortedSeq(ReliefDatesL(k))
    IN (1 :> [i \in DOMAIN h |-> <<h[i], 1>>]) @@
       (2 :> [i \in DOMAIN l |-> <<l[i], 1>>])

\* shift 1 held on the dates of S, as the dict of one employee
on_dates(S) == LET d == SortedSeq(S) IN [i \in DOMAIN d |-> <<d[i], 1>>]

\* Eight employees over six weeks: employees 1 and 2 hold shift 1 from
\* Monday to Wednesday of every week (18 shifts each), employees 3..6 hold
\* two shifts each, employee 7 holds the first Sunday and employee 8 the
\* second; employee 8 is on vacation on the dates of 1 and 2 and on the
\* first Sunday.
CrowdDates == {7 * w + d : w \in 0..5, d \in 0..2}
CrowdEmployees == [i \in 1..8 |-> Employee(i, {}, 37, 48)]
CrowdAssignment ==
    [n \in 1..8 |->
        IF n \in {1, 2} THEN on_dates(CrowdDates)
        ELSE IF n = 7 THEN on_dates({6})
        ELSE IF n = 8 THEN on_dates({13})
        ELSE on_dates({7 * (n - 3) + 4, 7 * (n - 2) + 5})]

\* the arguments of the calls of rebalance_shift_assignments that are
\* checked on their own
DirectCalls ==
    {[employees |-> ReliefEmployees, coverage |-> ReliefCoverage,
      weeks |-> 5, vacation |-> <<>>, assignment |-> ReliefAssignment(k)] :
        k \in 0..2}
    \cup {[employees |-> CrowdEmployees, coverage |-> <<Req(1, 2, NoSkill)>>,
           weeks |-> 6, vacation |-> (8 :> SortedSeq(CrowdDates \cup {6})),
           assignment |-> CrowdAssignment]}

\* rb.run: 0 a call of rebalance_shift_assignments on a given assignment,
\* 1 the first call of assign_shifts_to_employees, 2 and 3 the calls made
\* again by RebalanceAgain and AssignAgain
InitShifts ==
    /\ \/ /\ \E c \in ShiftCases : employees = c[1] /\ coverage_weekday = c[2]
          /\ dates = DateList(0, NumDates)
          /\ vacation_schedule \in VacationOptions(dates)
          /\ pc = "start"
          /\ shift_assignments = empty_assignments
          /\ rb = RbInit
       \/ \E c \in DirectCalls :
             /\ employees = c.employees
             /\ coverage_weekday = c.coverage
             /\ dates = DateList(0, 7 * c.weeks)
             /\ vacation_schedule = c.vacation
             /\ pc = "rb_init"
             /\ shift_assignments = c.assignment
             /\ rb = [RbInit EXCEPT !.run = 0]
    /\ coverage_weekend = coverage_weekday
    /\ shifts = ShiftTable
    /\ hours_per_week = [k \in Names \X WeekStarts |-> 0]
    /\ total_hours = [n \in Names |-> 0]
    /\ shift_counts = [n \in Names |-> 0]
    /\ consecutive_work_days = [n \in Names |-> 0]
    /\ last_work_date = [n \in Names |-> NoDate]
    /\ asg = AsgInit
    /\ errors = {}
    /\ warnings = {}
    /\ start_date = 0
    /\ num_weeks = 0
    /\ target_days_per_employee = 0
    /\ pl = <<>>

NextShifts ==
    \/ EnterAssign
    \/ BeginDate
    \/ BeginShift
    \/ EndDate
    \/ BeginSkillGroup
    \/ BeginResidual
    \/ AssignSlot
    \/ EndGroup
    \/ CallRebalance
    \/ RebalanceInit
    \/ BeginPass
    \/ BeginOver
    \/ EndPass
    \/ TransferShift
    \/ SkipShift
    \/ EndOver
    \/ RebalanceAgain
    \/ AssignAgain

SpecShifts == InitShifts /\ [][NextShifts]_vars

--------------------------------------------------------------------------
(* Observations used by the properties *)

\* the employees holding shift s on date d
holders(assignments, d, s) ==
    {n \in DOMAIN assignments :
        HasDate(assignments[n], d) /\ ShiftOn(assignments[n], d) = s}

shift_ids_on(d) ==
    {requirements_for(d)[k].shift_id : k \in DOMAIN requirements_for(d)}

\* an ERROR line was printed for (d, s), whatever the skill
error_reported(d, s) == \E e \in errors : e[1] = d /\ e[2] = s

\* assign_shifts_to_employees has returned
Returned == pc = "done" /\ rb.run \in {1, 3}

\* minutes employee n holds in the Monday-anchored week w
week_minutes(assignments, n, w) ==
    LET held == {i \in DOMAIN assignments[n] :
                    week_start_of(assignments[n][i][1]) = w}
        idx == SortedSeq(held)
    IN SumSeq([k \in DOMAIN idx |->
                 calculate_shift_hours(assignments[n][idx[k]][2], shifts)])

Rebalancing == pc \in {"rb_pass", "rb_over", "rb_shift"}

--------------------------------------------------------------------------
(* C1: after assign_shifts, for every date and every shift of that date's
   coverage list, the number of distinct employees holding the shift equals
   the sum of the head-counts of the date's requirements for the shift,
   unless an unfilled-slot error was reported for that (date, shift).
   The code breaks it: tier3 repeats the tier1 and tier2 candidates, so one
   employee is taken twice for two slots and no error is printed. *)
C1_SlotCount ==
    Returned =>
        \A i \in DOMAIN dates : \A s \in shift_ids_on(dates[i]) :
            \/ error_reported(dates[i], s)
            \/ Cardinality(holders(shift_assignments, dates[i], s))
                 = total_needed_of(reqs_of(requirements_for(dates[i]), s))

(* C2: after assign_shifts, for every date and every requirement whose
   required skill is not "None", at least the requirement's head-count of
   the employees holding the requirement's shift that date carry the skill.
   Stated here with the specification's own exception granted (no
   unfilled-slot error was reported for the date and shift); the code breaks
   it even so. *)
C2_SkillSatisfied ==
    Returned =>
        \A i \in DOMAIN dates : \A k \in DOMAIN requirements_for(dates[i]) :
            LET req == requirements_for(dates[i])[k] IN
            (req.required_skill # NoSkill /\ ~error_reported(dates[i], req.shift_id))
              => Cardinality({n \in holders(shift_assignments, dates[i], req.shift_id) :
                                req.required_skill \in employee_by_name(n).skills})
                   >= req.required

(* C3: at every point of the tiered assignment and of the rebalancer, no
   employee holds a shift on a date of the employee's vacation block. *)
C3_VacationExclusion ==
    \A n \in DOMAIN shift_assignments :
        \A d \in vacation_dates_by_employee(n) :
            ~HasDate(shift_assignments[n], d)

\* a rebalanced assignment in which an employee with a vacation block has
\* received a transferred shift
C3_Witness ==
    /\ pc = "done"
    /\ rb.total_transfers > 0
    /\ \E n \in DOMAIN shift_assignments :
          /\ vacation_dates_by_employee(n) # {}
          /\ Len(shift_assignments[n]) > Len(rb.input_assignments[n])

(* C4: while a date is being assigned, an employee already in
   assigned_today is never given another slot on that date: the candidate
   the loop is about to assign is not in assigned_today.  The code breaks
   it: a candidate taken from tier1 or tier2 is met again in tier3. *)
C4_OncePerDate ==
    (pc = "assign" /\ asg.i <= Len(asg.candidates)
                   /\ asg.assigned_count < asg.needed)
        => asg.candidates[asg.i] \notin asg.assigned_today

(* C5: every rebalancer transfer leaves the receiver's hours in the week of
   the transferred date at most max_hours_per_week; hence an (employee,
   week) over max_hours_per_week during or after rebalancing was already
   over it when rebalancing started. *)
C5_TransferKeepsMax ==
    [][(pc = "rb_shift" /\ shift_assignments' # shift_assignments) =>
         \A n \in Names : \A w \in WeekStarts :
             week_minutes(shift_assignments', n, w)
                 > week_minutes(shift_assignments, n, w)
               => week_minutes(shift_assignments', n, w)
                    <= employee_by_name(n).max_hours_per_week * 60]_vars

C5_NoNewBreach ==
    (Rebalancing \/ pc = "done") =>
        \A n \in Names : \A w \in WeekStarts :
            week_minutes(shift_assignments, n, w)
                > employee_by_name(n).max_hours_per_week * 60
              => week_minutes(rb.input_assignments, n, w)
                   > employee_by_name(n).max_hours_per_week * 60

C5_HardCap == []C5_NoNewBreach /\ C5_TransferKeepsMax

\* a finished rebalancing that made a transfer to an employee whose week was
\* then exactly at max_hours_per_week
C5_Witness ==
    /\ pc = "done"
    /\ rb.run = 1
    /\ rb.total_transfers > 0
    /\ \E n \in Names : \E w \in WeekStarts :
          /\ week_minutes(shift_assignments, n, w)
               > week_minutes(rb.input_assignments, n, w)
          /\ week_minutes(shift_assignments, n, w)
               = employee_by_name(n).max_hours_per_week * 60

--------------------------------------------------------------------------
(* calculate_min_employees_needed and can_cover_with_employees *)

RECURSIVE skill_requirements_from(_, _)
\* for req in requirements: if req.required_skill != "None":
\*     skill_requirements[req.required_skill] += req.required
skill_requirements_from(requirements, acc) ==
    IF requirements = <<>> THEN acc
    ELSE LET req == Head(requirements) IN
         skill_requirements_from(Tail(requirements),
             IF req.required_skill = NoSkill THEN acc
             ELSE IF HasDate(acc, req.required_skill)
                  THEN DictSet(acc, req.required_skill,
                               ShiftOn(acc, req.required_skill) + req.required)
                  ELSE DictSet(acc, req.required_skill, req.required))

\* returns (total_positions, skill_requirements)
calculate_min_employees_needed(requirements) ==
    [total_positions |-> total_needed_of(requirements),
     skill_requirements |-> skill_requirements_from(requirements, <<>>)]

can_cover_with_employees(employees_available_set, total_needed, skill_requirements) ==
    /\ ~(Cardinality(employees_available_set) < total_needed)
    /\ \A k \in DOMAIN skill_requirements :
          ~(Cardinality({n \in employees_available_set :
                           skill_requirements[k][1] \in employee_by_name(n).skills})
              < skill_requirements[k][2])

--------------------------------------------------------------------------
(* optimize_vacation_schedule *)

Attempts == 20
Infinity == 1000000
FallbackFloor == 7

\* random.seed(42 + attempt); random.shuffle(group1); random.shuffle(group2)
\* for len(employees) = 0..10: row attempt - 1 (attempts 2..19), column
\* len(employees) + 1, entry <<permutation of group1, permutation of
\* group2>>; entry k of a permutation is the old position of the element
\* that ends at position k (CPython's Mersenne Twister, seeds 44..61).
plan_shuffle_table == <<
  <<<<<<>>,<<>>>>, <<<<1>>,<<>>>>, <<<<1>>,<<1>>>>, <<<<1,2>>,<<1>>>>, <<<<1,2>>,<<2,1>>>>, <<<<3,1,2>>,<<2,1>>>>, <<<<3,1,2>>,<<3,2,1>>>>, <<<<2,1,3,4>>,<<3,2,1>>>>, <<<<2,1,3,4>>,<<3,1,4,2>>>>, <<<<3,2,5,1,4>>,<<3,1,4,2>>>>, <<<<3,2,5,1,4>>,<<5,4,1,3,2>>>>>>,
  <<<<<<>>,<<>>>>, <<<<1>>,<<>>>>, <<<<1>>,<<1>>>>, <<<<1,2>>,<<1>>>>, <<<<1,2>>,<<1,2>>>>, <<<<1,3,2>>,<<1,2>>>>, <<<<1,3,2>>,<<1,3,2>>>>, <<<<1,4,2,3>>,<<3,1,2>>>>, <<<<1,4,2,3>>,<<4,2,1,3>>>>, <<<<1,5,2,4,3>>,<<4,3,2,1>>>>, <<<<1,5,2,4,3>>,<<4,5,2,3,1>>>>>>,
  <<<<<<>>,<<>>>>, <<<<1>>,<<>>>>, <<<<1>>,<<1>>>>, <<<<2,1>>,<<1>>>>, <<<<2,1>>,<<1,2>>>>, <<<<3,2,1>>,<<2,1>>>>, <<<<3,2,1>>,<<2,3,1>>>>, <<<<3,4,2,1>>,<<2,1,3>>>>, <<<<3,4,2,1>>,<<4,1,3,2>>>>, <<<<2,3,5,4,1>>,<<4,1,3,2>>>>, <<<<2,3,5,4,1>>,<<4,1,3,2,5>>>>>>,
  <<<<<<>>,<<>>>>, <<<<1>>,<<>>>>, <<<<1>>,<<1>>>>, <<<<1,2>>,<<1>>>>, <<<<1,2>>,<<2,1>>>>, <<<<3,1,2>>,<<1,2>>>>, <<<<3,1,2>>,<<1,3,2>>>>, <<<<4,2,1,3>>,<<1,2,3>>>>, <<<<4,2,1,3>>,<<1,2,3,4>>>>, <<<<4,5,2,1,3>>,<<1,4,2,3>>>>, <<<<4,5,2,1,3>>,<<1,4,2,3,5>>>>>>,
  <<<<<<>>,<<>>>>, <<<<1>>,<<>>>>, <<<<1>>,<<1>>>>, <<<<1,2>>,<<1>>>>, <<<<1,2>>,<<2,1>>>>, <<<<1,2,3>>,<<2,1>>>>, <<<<1,2,3>>,<<3,2,1>>>>, <<<<4,2,1,3>>,<<2,1,3>>>>, <<<<4,2,1,3>>,<<1,4,3,2>>>>, <<<<4,2,1,3,5>>,<<1,4,3,2>>>>, <<<<4,2,1,3,5>>,<<1,4,3,2,5>>>>>>,
  <<<<<<>>,<<>>>>, <<<<1>>,<<>>>>, <<<<1>>,<<1>>>>, <<<<2,1>>,<<1>>>>, <<<<2,1>>,<<1,2>>>>, <<<<3,2,1>>,<<1,2>>>>, <<<<3,2,1>>,<<3,1,2>>>>, <<<<4,3,2,1>>,<<3,2,1>>>>, <<<<4,3,2,1>>,<<3,4,2,1>>>>, <<<<4,5,2,3,1>>,<<2,1,4,3>>>>, <<<<4,5,2,3,1>>,<<2,4,5,1,3>>>>>>,
  <<<<<<>>,<<>>>>, <<<<1>>,<<>>>>, <<<<1>>,<<1>>>>, <<<<1,2>>,<<1>>>>, <<<<1,2>>,<<1,2>>>>, <<<<1,3,2>>,<<1,2>>>>, <<<<1,3,2>>,<<3,1,2>>>>, <<<<1,3,2,4>>,<<2,1,3>>>>, <<<<1,3,2,4>>,<<1,4,3,2>>>>, <<<<5,1,2,3,4>>,<<3,1,2,4>>>>, <<<<5,1,2,3,4>>,<<5,2,1,3,4>>>>>>,
  <<<<<<>>,<<>>>>, <<<<1>>,<<>>>>, <<<<1>>,<<1>>>>, <<<<2,1>>,<<1>>>>, <<<<2,1>>,<<2,1>>>>, <<<<2,3,1>>,<<2,1>>>>, <<<<2,3,1>>,<<2,3,1>>>>, <<<<4,1,3,2>>,<<2,3,1>>>>, <<<<4,1,3,2>>,<<3,4,1,2>>>>, <<<<4,3,1,5,2>>,<<1,4,2,3>>>>, <<<<4,3,1,5,2>>,<<1,4,2,3,5>>>>>>,
  <<<<<<>>,<<>>>>, <<<<1>>,<<>>>>, <<<<1>>,<<1>>>>, <<<<1,2>>,<<1>>>>, <<<<1,2>>,<<2,1>>>>, <<<<3,1,2>>,<<1,2>>>>, <<<<3,1,2>>,<<1,2,3>>>>, <<<<4,2,1,3>>,<<1,3,2>>>>, <<<<4,2,1,3>>,<<4,1,2,3>>>>, <<<<4,2,5,1,3>>,<<4,1,2,3>>>>, <<<<4,2,5,1,3>>,<<2,5,1,4,3>>>>>>,
  <<<<<<>>,<<>>>>, <<<<1>>,<<>>>>, <<<<1>>,<<1>>>>, <<<<2,1>>,<<1>>>>, <<<<2,1>>,<<1,2>>>>, <<<<2,1,3>>,<<1,2>>>>, <<<<2,1,3>>,<<1,3,2>>>>, <<<<1,3,4,2>>,<<1,2,3>>>>, <<<<1,3,4,2>>,<<1,2,4,3>>>>, <<<<1,3,4,2,5>>,<<1,2,4,3>>>>, <<<<1,3,4,2,5>>,<<1,2,4,3,5>>>>>>,
  <<<<<<>>,<<>>>>, <<<<1>>,<<>>>>, <<<<1>>,<<1>>>>, <<<<2,1>>,<<1>>>>, <<<<2,1>>,<<1,2>>>>, <<<<3,2,1>>,<<1,2>>>>, <<<<3,2,1>>,<<1,2,3>>>>, <<<<1,3,4,2>>,<<1,3,2>>>>, <<<<1,3,4,2>>,<<1,3,2,4>>>>, <<<<1,5,3,4,2>>,<<1,3,2,4>>>>, <<<<1,5,3,4,2>>,<<3,1,2,5,4>>>>>>,
  <<<<<<>>,<<>>>>, <<<<1>>,<<>>>>, <<<<1>>,<<1>>>>, <<<<2,1>>,<<1>>>>, <<<<2,1>>,<<2,1>>>>, <<<<2,3,1>>,<<2,1>>>>, <<<<2,3,1>>,<<3,2,1>>>>, <<<<2,3,4,1>>,<<1,2,3>>>>, <<<<2,3,4,1>>,<<2,4,1,3>>>>, <<<<3,4,5,2,1>>,<<2,4,3,1>>>>, <<<<3,4,5,2,1>>,<<3,5,4,2,1>>>>>>,
  <<<<<<>>,<<>>>>, <<<<1>>,<<>>>>, <<<<1>>,<<1>>>>, <<<<2,1>>,<<1>>>>, <<<<2,1>>,<<1,2>>>>, <<<<2,1,3>>,<<1,2>>>>, <<<<2,1,3>>,<<1,3,2>>>>, <<<<4,3,2,1>>,<<1,2,3>>>>, <<<<4,3,2,1>>,<<2,1,3,4>>>>, <<<<4,3,2,1,5>>,<<2,1,3,4>>>>, <<<<4,3,2,1,5>>,<<2,1,3,4,5>>>>>>,
  <<<<<<>>,<<>>>>, <<<<1>>,<<>>>>, <<<<1>>,<<1>>>>, <<<<2,1>>,<<1>>>>, <<<<2,1>>,<<1,2>>>>, <<<<3,2,1>>,<<2,1>>>>, <<<<3,2,1>>,<<2,1,3>>>>, <<<<3,4,2,1>>,<<3,2,1>>>>, <<<<3,4,2,1>>,<<1,4,3,2>>>>, <<<<2,5,4,3,1>>,<<1,4,3,2>>>>, <<<<2,5,4,3,1>>,<<1,4,5,3,2>>>>>>,
  <<<<<<>>,<<>>>>, <<<<1>>,<<>>>>, <<<<1>>,<<1>>>>, <<<<2,1>>,<<1>>>>, <<<<2,1>>,<<2,1>>>>, <<<<2,1,3>>,<<2,1>>>>, <<<<2,1,3>>,<<2,3,1>>>>, <<<<4,3,1,2>>,<<2,3,1>>>>, <<<<4,3,1,2>>,<<3,2,4,1>>>>, <<<<4,3,1,2,5>>,<<3,2,4,1>>>>, <<<<4,3,1,2,5>>,<<5,3,4,2,1>>>>>>,
  <<<<<<>>,<<>>>>, <<<<1>>,<<>>>>, <<<<1>>,<<1>>>>, <<<<2,1>>,<<1>>>>, <<<<2,1>>,<<2,1>>>>, <<<<2,3,1>>,<<1,2>>>>, <<<<2,3,1>>,<<1,2,3>>>>, <<<<3,4,1,2>>,<<2,3,1>>>>, <<<<3,4,1,2>>,<<3,2,4,1>>>>, <<<<4,5,3,1,2>>,<<3,2,4,1>>>>, <<<<4,5,3,1,2>>,<<3,5,4,2,1>>>>>>,
  <<<<<<>>,<<>>>>, <<<<1>>,<<>>>>, <<<<1>>,<<1>>>>, <<<<1,2>>,<<1>>>>, <<<<1,2>>,<<1,2>>>>, <<<<1,3,2>>,<<2,1>>>>, <<<<1,3,2>>,<<2,1,3>>>>, <<<<4,1,2,3>>,<<3,1,2>>>>, <<<<4,1,2,3>>,<<4,2,1,3>>>>, <<<<2,1,4,5,3>>,<<4,2,1,3>>>>, <<<<2,1,4,5,3>>,<<1,5,4,2,3>>>>>>,
  <<<<<<>>,<<>>>>, <<<<1>>,<<>>>>, <<<<1>>,<<1>>>>, <<<<1,2>>,<<1>>>>, <<<<1,2>>,<<2,1>>>>, <<<<3,1,2>>,<<2,1>>>>, <<<<3,1,2>>,<<2,1,3>>>>, <<<<2,3,1,4>>,<<1,3,2>>>>, <<<<2,3,1,4>>,<<1,4,2,3>>>>, <<<<5,1,3,2,4>>,<<1,4,2,3>>>>, <<<<5,1,3,2,4>>,<<4,1,2,5,3>>>>>>
>>

permute(x, perm) == [k \in DOMAIN x |-> x[perm[k]]]

PlInit ==
    [group1_base |-> <<>>, group2_base |-> <<>>, mid_point |-> 0,
     attempt |-> 0, group1 |-> <<>>, group2 |-> <<>>,
     target_block_size |-> 0, end_size |-> 0, idx |-> 1,
     temp_schedule |-> <<>>, temp_vacation_by_date |-> <<>>,
     best_schedule |-> <<>>, best_is_none |-> TRUE, best_min_days |-> 0,
     best_max_spread |-> Infinity, best_total_days |-> 0,
     fallback |-> FALSE, run |-> 1, first_output |-> <<>>]

\* pl.run: 0 the call made by main, whose result goes on to the export,
\* 1 a first call of optimize_vacation_schedule, 2 the call made again

\* date of Python index i of dates
date_at(i) == dates[i + 1]

\* dates[start_idx:end_idx]: a Python slice stops at the end of the list
slice(start_idx, end_idx) ==
    LET stop == IF end_idx > Len(dates) THEN Len(dates) ELSE end_idx
    IN [k \in 1..(stop - start_idx) |-> date_at(start_idx + k - 1)]

is_weekend(d) == weekday(d) \in {5, 6}

weekday_total == calculate_min_employees_needed(coverage_weekday).total_positions
weekend_total == calculate_min_employees_needed(coverage_weekend).total_positions
total_employees == Len(employees)
max_vacation_weekday == total_employees - weekday_total
max_vacation_weekend == total_employees - weekend_total

\* sorted(group, key=lambda e: e.name)
sorted_by_name(group) ==
    Values(SortPairs(<<>>, [i \in DOMAIN group |-> <<<<group[i]>>, group[i]>>]))

\* sorted(group, key=lambda e: e.name, reverse=True)
sorted_by_name_reverse(group) ==
    Values(SortPairs(<<>>, [i \in DOMAIN group |-> <<<<0 - group[i]>>, group[i]>>]))

\* sorted(employees, key=lambda e: e.weekly_target_hours, reverse=True)
employees_by_hours ==
    Values(SortPairs(<<>>, [i \in DOMAIN employees |->
        <<<<0 - employees[i].weekly_target_hours>>, employees[i].name>>]))

\* every other element of s, from Python index first
alternate(s, first) ==
    LET keep == {i \in DOMAIN s : (i - 1) % 2 = first}
        idx == SortedSeq(keep)
    IN [k \in DOMAIN idx |-> s[idx[k]]]

\* the ordering of the two groups for an attempt
group_order(group1_base, group2_base, attempt) ==
    IF attempt = 0
    THEN <<sorted_by_name(group1_base), sorted_by_name(group2_base)>>
    ELSE IF attempt = 1
    THEN <<sorted_by_name_reverse(group1_base),
           sorted_by_name_reverse(group2_base)>>
    ELSE LET perms == plan_shuffle_table[attempt - 1][total_employees + 1]
         IN <<permute(group1_base, perms[1]), permute(group2_base, perms[2])>>

\* a per-date test that counts heads and skips the check of who stays
can_take_by_count(emp, d, vacation_by_date) ==
    /\ emp \notin vacation_by_date[d]
    /\ ~(Cardinality(vacation_by_date[d])
           >= (IF is_weekend(d) THEN max_vacation_weekend ELSE max_vacation_weekday))

\* the per-date test of the candidate block loop
can_take(emp, d, vacation_by_date) ==
    /\ emp \notin vacation_by_date[d]
    /\ ~(Cardinality(vacation_by_date[d])
           >= (IF is_weekend(d) THEN max_vacation_weekend ELSE max_vacation_weekday))
    /\ can_cover_with_employees(
           {n \in Names : n \notin vacation_by_date[d] /\ n # emp},
           IF is_weekend(d) THEN weekend_total ELSE weekday_total,
           calculate_min_employees_needed(
               IF is_weekend(d) THEN coverage_weekend ELSE coverage_weekday
           ).skill_requirements)

can_take_all(emp, block, vacation_by_date) ==
    \A k \in DOMAIN block : can_take(emp, block[k], vacation_by_date)

\* the first start_idx of range(lo, hi) whose block of block_length dates
\* can be taken; <<>> when there is none (best_block = None)
first_block(emp, lo, hi, block_length, vacation_by_date) ==
    LET ok == {s \in lo..(hi - 1) :
                 can_take_all(emp, slice(s, s + block_length), vacation_by_date)}
    IN IF ok = {} THEN <<>>
       ELSE LET s == CHOOSE x \in ok : \A y \in ok : x <= y
            IN slice(s, s + block_length)

\* group 1 start positions running up to the midpoint itself
max_start_first_to_mid(mid_point, block) == mid_point + 1

\* max_start_first = max(0, mid_point - target_block_size + 1)
max_start_first(mid_point, block) ==
    IF mid_point - block + 1 > 0 THEN mid_point - block + 1 ELSE 0

\* group 2 start positions running up to the last date
max_start_second_to_end(mid_point, block) == Len(dates)

\* max_start_second = max(mid_point, len(dates) - target_block_size + 1)
max_start_second(mid_point, block) ==
    IF Len(dates) - block + 1 > mid_point THEN Len(dates) - block + 1 ELSE mid_point

\* for date in best_block: temp_schedule[emp.name].append(date);
\*                         temp_vacation_by_date[date].add(emp.name)
assign_block(emp, block) ==
    pl' = [pl EXCEPT
             !.temp_schedule = [pl.temp_schedule EXCEPT ![emp] = @ \o block],
             !.temp_vacation_by_date =
                 [d \in DOMAIN pl.temp_vacation_by_date |->
                     IF d \in Range(block)
                     THEN pl.temp_vacation_by_date[d] \cup {emp}
                     ELSE pl.temp_vacation_by_date[d]],
             !.idx = pl.idx + 1]

\* temp_schedule kept from the previous block size instead of being recreated
stale_schedule ==
    IF DOMAIN pl.temp_schedule = Names THEN pl.temp_schedule
    ELSE [n \in Names |-> <<>>]

empty_schedule == [n \in Names |-> <<>>]
empty_vacation_by_date == [d \in Range(dates) |-> {}]

plan_unchanged == UNCHANGED <<employees, coverage_weekday, coverage_weekend,
                              shifts, assigner, plan_inputs>>

\* entry: capacities, dates, theoretical maximum, the two groups, mid_point
EnterPlan ==
    /\ pc = "plan_start"
    /\ dates' = [k \in 1..(IF num_weeks > 0 THEN 7 * num_weeks ELSE 0) |->
                    start_date + k - 1]
    /\ IF total_employees = 0
       THEN \* total_vacation_capacity // total_employees
            /\ pc' = "ZeroDivisionError"
            /\ UNCHANGED <<pl, vacation_schedule>>
       ELSE /\ pl' = [pl EXCEPT
                        !.group1_base = alternate(employees_by_hours, 0),
                        !.group2_base = alternate(employees_by_hours, 1),
                        !.mid_point = Len(dates') \div 2,
                        !.attempt = 0,
                        !.best_schedule = <<>>, !.best_is_none = TRUE,
                        !.best_min_days = 0, !.best_max_spread = Infinity,
                        !.best_total_days = 0, !.fallback = FALSE]
            /\ vacation_schedule' = empty_schedule
            /\ pc' = "attempt"
    /\ plan_unchanged

max_block_size ==
    IF pl.mid_point < Len(dates) - pl.mid_point
    THEN pl.mid_point ELSE Len(dates) - pl.mid_point

start_size ==
    IF target_days_per_employee < max_block_size
    THEN target_days_per_employee ELSE max_block_size

end_size == IF max_block_size - 8 > 1 THEN max_block_size - 8 ELSE 1

\* for attempt in range(20): the orderings and the range of block sizes
BeginAttempt ==
    /\ pc = "attempt"
    /\ pl.attempt < Attempts
    /\ LET order == group_order(pl.group1_base, pl.group2_base, pl.attempt)
           ready == [pl EXCEPT !.group1 = order[1], !.group2 = order[2],
                               !.temp_schedule = empty_schedule,
                               !.temp_vacation_by_date = empty_vacation_by_date,
                               !.end_size = end_size]
       IN IF start_size < 1
          THEN /\ pl' = [ready EXCEPT !.attempt = pl.attempt + 1]
               /\ pc' = "attempt"
          ELSE /\ pl' = [ready EXCEPT !.target_block_size = start_size]
               /\ pc' = "block"
    /\ UNCHANGED <<dates, vacation_schedule>>
    /\ plan_unchanged

\* for target_block_size in range(start_size, end_size - 1, -1)
BeginBlockSize ==
    /\ pc = "block"
    /\ IF pl.target_block_size < pl.end_size
       THEN /\ pl' = [pl EXCEPT !.attempt = pl.attempt + 1]
            /\ pc' = "attempt"
       ELSE IF \/ pl.target_block_size > pl.mid_point
               \/ pl.target_block_size > Len(dates) - pl.mid_point
       THEN /\ pl' = [pl EXCEPT !.target_block_size = pl.target_block_size - 1]
            /\ pc' = "block"
       ELSE /\ pl' = [pl EXCEPT !.temp_schedule = empty_schedule,
                                !.temp_vacation_by_date = empty_vacation_by_date,
                                !.idx = 1]
            /\ pc' = "group1"
    /\ UNCHANGED <<dates, vacation_schedule>>
    /\ plan_unchanged

\* for emp in group1: first block of target_block_size dates in the first half
PlaceGroup1 ==
    /\ pc = "group1"
    /\ pl.idx <= Len(pl.group1)
    /\ LET emp == pl.group1[pl.idx]
           best_block == first_block(emp, 0,
                             max_start_first(pl.mid_point, pl.target_block_size),
                             pl.target_block_size, pl.temp_vacation_by_date)
       IN assign_block(emp, best_block)
    /\ UNCHANGED <<pc, dates, vacation_schedule>>
    /\ plan_unchanged

Group1Done ==
    /\ pc = "group1"
    /\ pl.idx > Len(pl.group1)
    /\ pl' = [pl EXCEPT !.idx = 1]
    /\ pc' = "group2"
    /\ UNCHANGED <<dates, vacation_schedule>>
    /\ plan_unchanged

\* for emp in group2: first block of target_block_size dates in the second half
PlaceGroup2 ==
    /\ pc = "group2"
    /\ pl.idx <= Len(pl.group2)
    /\ LET emp == pl.group2[pl.idx]
           best_block == first_block(emp, pl.mid_point,
                             max_start_second(pl.mid_point, pl.target_block_size),
                             pl.target_block_size, pl.temp_vacation_by_date)
       IN assign_block(emp, best_block)
    /\ UNCHANGED <<pc, dates, vacation_schedule>>
    /\ plan_unchanged

vacation_counts(schedule) == {Len(schedule[n]) : n \in DOMAIN schedule}
min_days_of(schedule) ==
    CHOOSE m \in vacation_counts(schedule) : \A c \in vacation_counts(schedule) : m <= c
max_days_of(schedule) ==
    CHOOSE m \in vacation_counts(schedule) : \A c \in vacation_counts(schedule) : m >= c
spread_of(schedule) == max_days_of(schedule) - min_days_of(schedule)
total_days_of(schedule) ==
    LET order == SortedSeq(DOMAIN schedule)
    IN SumSeq([k \in DOMAIN order |-> Len(schedule[order[k]])])

\* spread < best_max_spread or (equal and min_days > best_min_days) or
\* (equal and equal and total_days > best_total_days)
is_better(schedule) ==
    \/ spread_of(schedule) < pl.best_max_spread
    \/ /\ spread_of(schedule) = pl.best_max_spread
       /\ min_days_of(schedule) > pl.best_min_days
    \/ /\ spread_of(schedule) = pl.best_max_spread
       /\ min_days_of(schedule) = pl.best_min_days
       /\ total_days_of(schedule) > pl.best_total_days

\* a candidate test that tolerates a spread of two days
accepted_within_two(schedule) == spread_of(schedule) <= 2

\* the tolerance of the candidate test
accepted(schedule) == spread_of(schedule) <= 1

\* after both groups: candidate test, best update, break or next block size
Evaluate ==
    /\ pc = "group2"
    /\ pl.idx > Len(pl.group2)
    /\ IF accepted(pl.temp_schedule)
       THEN /\ pl' = IF is_better(pl.temp_schedule)
                     THEN [pl EXCEPT
                             !.best_max_spread = spread_of(pl.temp_schedule),
                             !.best_min_days = min_days_of(pl.temp_schedule),
                             !.best_total_days = total_days_of(pl.temp_schedule),
                             !.best_schedule = pl.temp_schedule,
                             !.best_is_none = FALSE,
                             !.attempt = pl.attempt + 1]
                     ELSE [pl EXCEPT !.attempt = pl.attempt + 1]
            /\ pc' = "attempt"
       ELSE /\ pl' = [pl EXCEPT !.target_block_size = pl.target_block_size - 1]
            /\ pc' = "block"
    /\ UNCHANGED <<dates, vacation_schedule>>
    /\ plan_unchanged

\* after the 20 attempts: if best_schedule is None, best effort allocation
EndSearch ==
    /\ pc = "attempt"
    /\ pl.attempt >= Attempts
    /\ IF pl.best_is_none
       THEN /\ pl' = [pl EXCEPT !.temp_schedule = empty_schedule,
                                !.temp_vacation_by_date = empty_vacation_by_date,
                                !.group1 = sorted_by_name(pl.group1_base),
                                !.group2 = sorted_by_name(pl.group2_base),
                                !.fallback = TRUE, !.idx = 1]
            /\ pc' = "fallback1"
       ELSE /\ pl' = pl
            /\ pc' = "analyze"
    /\ UNCHANGED <<dates, vacation_schedule>>
    /\ plan_unchanged

RECURSIVE fallback_block(_, _, _, _)
\* for block_length in range(target_days_per_employee, 6, -1): the first
\* block of the first length that has one
fallback_block(emp, block_length, lo, hi_base) ==
    IF block_length < FallbackFloor THEN <<>>
    ELSE LET found == first_block(emp, lo, hi_base - block_length + 1,
                                  block_length, pl.temp_vacation_by_date)
         IN IF found # <<>> THEN found
            ELSE fallback_block(emp, block_length - 1, lo, hi_base)

FallbackGroup1 ==
    /\ pc = "fallback1"
    /\ pl.idx <= Len(pl.group1)
    /\ LET emp == pl.group1[pl.idx]
       IN assign_block(emp, fallback_block(emp, target_days_per_employee,
                                           0, pl.mid_point))
    /\ UNCHANGED <<pc, dates, vacation_schedule>>
    /\ plan_unchanged

FallbackGroup1Done ==
    /\ pc = "fallback1"
    /\ pl.idx > Len(pl.group1)
    /\ pl' = [pl EXCEPT !.idx = 1]
    /\ pc' = "fallback2"
    /\ UNCHANGED <<dates, vacation_schedule>>
    /\ plan_unchanged

FallbackGroup2 ==
    /\ pc = "fallback2"
    /\ pl.idx <= Len(pl.group2)
    /\ LET emp == pl.group2[pl.idx]
       IN assign_block(emp, fallback_block(emp, target_days_per_employee,
                                           pl.mid_point, Len(dates)))
    /\ UNCHANGED <<pc, dates, vacation_schedule>>
    /\ plan_unchanged

\* best_schedule = temp_schedule
FallbackDone ==
    /\ pc = "fallback2"
    /\ pl.idx > Len(pl.group2)
    /\ pl' = [pl EXCEPT !.best_schedule = pl.temp_schedule,
                        !.best_is_none = FALSE]
    /\ pc' = "analyze"
    /\ UNCHANGED <<dates, vacation_schedule>>
    /\ plan_unchanged

\* vacation_schedule = best_schedule; the analysis reads dates[len(dates) // 2]
Analyze ==
    /\ pc = "analyze"
    /\ vacation_schedule' = pl.best_schedule
    /\ pc' = IF DOMAIN pl.best_schedule # {} /\ ~(Len(dates) \div 2 < Len(dates))
             THEN "IndexError" ELSE "returned"
    /\ UNCHANGED <<dates, pl>>
    /\ plan_unchanged

\* optimize_vacation_schedule is called again with the same arguments
PlanAgain ==
    /\ pc = "returned"
    /\ pl.run = 1
    /\ pl' = [pl EXCEPT !.run = 2, !.first_output = vacation_schedule]
    /\ pc' = "plan_start"
    /\ UNCHANGED <<dates, vacation_schedule>>
    /\ plan_unchanged

--------------------------------------------------------------------------
(* Inputs of the allocator runs that are checked *)

MaxWeeks == 3
MaxPlanEmployees == 3

\* the first k, or the last k, of n employees hold skill X
SkilledFirst(n, k) ==
    [i \in 1..n |-> Employee(i, IF i <= k THEN {"X"} ELSE {}, 37, 48)]
SkilledLast(n, k) ==
    [i \in 1..n |-> Employee(i, IF i > n - k THEN {"X"} ELSE {}, 37, 48)]

PlanEmployeeLists ==
    UNION {{SkilledFirst(n, k), SkilledLast(n, k)} :
              n \in 0..MaxPlanEmployees, k \in 0..MaxPlanEmployees} \cup
    {<<Employee(1, {}, 30, 48), Employee(2, {"X"}, 37, 48), Employee(3, {}, 37, 48)>>}

\* <<coverage_weekday, coverage_weekend>>
PlanCoverages ==
    {<<<<Req(1, 1, NoSkill)>>, <<Req(1, 1, NoSkill)>>>>,
     <<<<Req(1, 1, "X")>>, <<Req(1, 1, "X")>>>>,
     <<<<Req(1, 1, "X"), Req(2, 1, "X")>>, <<Req(1, 1, NoSkill)>>>>}

PlanTargets == {0, 9}

\* ten employees of whom the first two carry skill CRITICAL, two CRITICAL
\* employees required on every day, two weeks from a Monday, target 7
ScarcityEmployees ==
    [i \in 1..10 |-> Employee(i, IF i <= 2 THEN {"CRITICAL"} ELSE {}, 37, 48)]
ScarcityCoverage == <<Req(1, 2, "CRITICAL")>>

\* four employees who all carry skill A, two of them required on shift 1
\* (09:00-17:00) on every day, two weeks, target 7
TrivialEmployees == [i \in 1..4 |-> Employee(i, {"A"}, 37, 48)]
TrivialCoverage == <<Req(1, 2, "A")>>

\* <<employees, coverage_weekday, coverage_weekend, num_weeks, target>>
PlanScenarios ==
    {<<ScarcityEmployees, ScarcityCoverage, ScarcityCoverage, 2, 7>>,
     <<TrivialEmployees, TrivialCoverage, TrivialCoverage, 2, 7>>}

\* one week from a Sunday to a Saturday: employee 2, the only one with
\* skill X, is needed on every weekday and can be away on the Sunday and the
\* Saturday only
WeekendEmployees == <<Employee(1, {}, 37, 48), Employee(2, {"X"}, 37, 48)>>

InitPlan ==
    /\ \/ /\ employees \in PlanEmployeeLists
          /\ \E c \in PlanCoverages :
                 coverage_weekday = c[1] /\ coverage_weekend = c[2]
          /\ start_date \in {0, 3}
          /\ num_weeks \in 0..MaxWeeks
          /\ target_days_per_employee \in PlanTargets
          /\ pl = PlInit
       \/ \E c \in PlanScenarios :
             /\ employees = c[1]
             /\ coverage_weekday = c[2]
             /\ coverage_weekend = c[3]
             /\ start_date \in {0, 3}
             /\ num_weeks = c[4]
             /\ target_days_per_employee = c[5]
             /\ pl = [PlInit EXCEPT !.run = 0]
       \/ /\ employees = WeekendEmployees
          /\ coverage_weekday = <<Req(1, 1, "X")>>
          /\ coverage_weekend = <<Req(1, 1, NoSkill)>>
          /\ start_date = 6
          /\ num_weeks = 1
          /\ target_days_per_employee \in PlanTargets
          /\ pl = PlInit
    /\ dates = <<>>
    /\ shifts = ShiftTable
    /\ vacation_schedule = <<>>
    /\ pc = "plan_start"
    /\ shift_assignments = <<>>
    /\ hours_per_week = <<>>
    /\ total_hours = <<>>
    /\ shift_counts = <<>>
    /\ consecutive_work_days = <<>>
    /\ last_work_date = <<>>
    /\ asg = AsgInit
    /\ errors = {}
    /\ warnings = {}
    /\ rb = RbInit

NextPlan ==
    \/ EnterPlan
    \/ BeginAttempt
    \/ BeginBlockSize
    \/ PlaceGroup1
    \/ Group1Done
    \/ PlaceGroup2
    \/ Evaluate
    \/ EndSearch
    \/ FallbackGroup1
    \/ FallbackGroup1Done
    \/ FallbackGroup2
    \/ FallbackDone
    \/ Analyze
    \/ PlanAgain

SpecPlan == InitPlan /\ [][NextPlan]_vars

--------------------------------------------------------------------------
(* The allocator and the assigner, each run and run again *)

InitPipeline == InitPlan \/ InitShifts

\* main: the schedule returned by optimize_vacation_schedule is handed to
\* export_schedule_to_excel, which builds the dates of the period again and
\* calls assign_shifts_to_employees
ExportSchedule ==
    /\ pc = "returned"
    /\ pl.run = 0
    /\ dates' = [k \in 1..(7 * num_weeks) |-> start_date + k - 1]
    /\ rb' = RbInit
    /\ errors' = {}
    /\ warnings' = {}
    /\ pc' = "start"
    /\ UNCHANGED <<employees, coverage_weekday, coverage_weekend, shifts,
                   vacation_schedule, shift_assignments, tables, asg,
                   plan_inputs, pl>>

NextPipeline == NextPlan \/ NextShifts \/ ExportSchedule

SpecPipeline == InitPipeline /\ [][NextPipeline]_vars

--------------------------------------------------------------------------
(* Observations on the allocator *)

PlanReturned == pc = "returned"

\* Python index of date d in dates
date_index(d) == CHOOSE i \in 0..(Len(dates) - 1) : date_at(i) = d

placed(schedule) == {n \in DOMAIN schedule : schedule[n] # <<>>}

MainSearchReturned == PlanReturned /\ ~pl.fallback

\* C6: in the schedule plan_vacations returns, from the main search or from
\* the fallback, every non-empty vacation list is one run of consecutive
\* dates of the period: each date is a date of the period and each next
\* date is the day after the one before it (no gap, no repeated date).
C6_Contiguous ==
    PlanReturned =>
        \A n \in placed(vacation_schedule) :
            LET block == vacation_schedule[n] IN
            /\ \A k \in DOMAIN block : block[k] \in Range(dates)
            /\ \A k \in 1..(Len(block) - 1) : block[k + 1] = block[k] + 1

C6_Witness ==
    /\ PlanReturned
    /\ pl.fallback
    /\ Cardinality(placed(vacation_schedule)) >= 2
    /\ \E n \in placed(vacation_schedule) : Len(vacation_schedule[n]) >= FallbackFloor

\* C7: when the returned schedule comes from the main search, with
\* mid = len(dates) div 2, every non-empty block of a group 1 employee has
\* all its date indices in [0, mid) and every non-empty block of a group 2
\* employee has all its date indices in [mid, len(dates)).
C7_TwoHalves ==
    MainSearchReturned =>
        LET mid == Len(dates) \div 2 IN
        /\ \A n \in Range(alternate(employees_by_hours, 0)) :
              \A k \in DOMAIN vacation_schedule[n] :
                 /\ vacation_schedule[n][k] \in Range(dates)
                 /\ date_index(vacation_schedule[n][k]) < mid
        /\ \A n \in Range(alternate(employees_by_hours, 1)) :
              \A k \in DOMAIN vacation_schedule[n] :
                 /\ vacation_schedule[n][k] \in Range(dates)
                 /\ date_index(vacation_schedule[n][k]) >= mid

C7_Witness ==
    /\ MainSearchReturned
    /\ \E a \in Range(pl.group1_base), b \in Range(pl.group1_base) :
          /\ a # b
          /\ Len(vacation_schedule[a]) >= 2
          /\ Len(vacation_schedule[b]) >= 2
          /\ vacation_schedule[a][1] # vacation_schedule[b][1]
    /\ \E n \in Range(pl.group2_base) : Len(vacation_schedule[n]) >= 2

\* C8: when the returned schedule comes from the main search, the longest
\* and the shortest vacation list over all employees (an unplaced employee
\* counts with length 0) differ by at most 1.
C8_SpreadAtMostOne ==
    MainSearchReturned =>
        \A a \in DOMAIN vacation_schedule, b \in DOMAIN vacation_schedule :
            Len(vacation_schedule[a]) - Len(vacation_schedule[b]) <= 1

C8_Witness ==
    /\ MainSearchReturned
    /\ \E a \in DOMAIN vacation_schedule, b \in DOMAIN vacation_schedule :
          /\ vacation_schedule[a] = <<>>
          /\ Len(vacation_schedule[b]) = 1
    /\ pl.target_block_size < start_size

C10_Idempotent ==
    (pc = "done" /\ rb.run = 2) =>
        /\ rb.total_transfers = 0
        /\ shift_assignments = rb.first_output

C10_Witness ==
    /\ pc = "done"
    /\ rb.run = 2
    /\ rb.first_transfers >= 2

--------------------------------------------------------------------------
(* The rebalancer as a reassignment *)

\* the number of employees holding every (date, shift) is the same in a and b
same_head_counts(a, b) ==
    \A d \in Range(dates) : \A s \in DOMAIN shifts :
        Cardinality(holders(a, d, s)) = Cardinality(holders(b, d, s))

\* b is a with the pair (d, s) moved from donor to receiver
moved(a, b, donor, receiver, d, s) ==
    /\ donor # receiver
    /\ <<d, s>> \in Range(a[donor])
    /\ ~HasDate(a[receiver], d)
    /\ Range(b[donor]) = Range(a[donor]) \ {<<d, s>>}
    /\ Range(b[receiver]) = Range(a[receiver]) \cup {<<d, s>>}
    /\ Len(b[donor]) = Len(a[donor]) - 1
    /\ Len(b[receiver]) = Len(a[receiver]) + 1
    /\ \A n \in Names \ {donor, receiver} : b[n] = a[n]

C11_TransferMoves ==
    [][(pc = "rb_shift" /\ shift_assignments' # shift_assignments) =>
         /\ same_head_counts(shift_assignments, shift_assignments')
         /\ \E donor \in Names, receiver \in Names :
              \E d \in Range(dates), s \in DOMAIN shifts :
                 moved(shift_assignments, shift_assignments',
                       donor, receiver, d, s)]_vars

C11_HeadCountsKept ==
    (Rebalancing \/ pc = "done") =>
        same_head_counts(rb.input_assignments, shift_assignments)

\* C11: the rebalancer only reassigns: every transfer takes one (date,
\* shift) pair from the donor and gives it to a receiver that had no shift on
\* that date, nothing is overwritten or dropped, and for every date and shift
\* the number of holders after each transfer and after rebalancing is the
\* number before.
C11_OnlyReassigns == []C11_HeadCountsKept /\ C11_TransferMoves

\* a finished rebalancing whose two or more transfers changed who holds shifts
C11_Witness ==
    /\ pc = "done"
    /\ rb.run = 1
    /\ rb.total_transfers >= 2
    /\ \E d \in Range(dates) : \E s \in DOMAIN shifts :
          /\ holders(shift_assignments, d, s) # holders(rb.input_assignments, d, s)
          /\ holders(shift_assignments, d, s) # {}

--------------------------------------------------------------------------
(* Skill coverage across the rebalancer *)

\* every skilled requirement of shift s on date d has at least its
\* head-count of holders carrying the skill
skill_met(assignments, d, s) ==
    LET shift_reqs == reqs_of(requirements_for(d), s) IN
    \A k \in DOMAIN shift_reqs :
        shift_reqs[k].required_skill # NoSkill =>
            Cardinality({n \in holders(assignments, d, s) :
                           shift_reqs[k].required_skill
                               \in employee_by_name(n).skills})
                >= shift_reqs[k].required

\* C12: the rebalancer preserves skill coverage: a (date, shift) whose
\* skilled requirements were all met by the assignment the rebalancer was
\* given still has them all met after every transfer and at the end, also
\* when the shift has requirements for two or more different skills.
C12_SkillCoverageKept ==
    (Rebalancing \/ pc = "done") =>
        \A d \in Range(dates) : \A s \in DOMAIN shifts :
            skill_met(rb.input_assignments, d, s)
                => skill_met(shift_assignments, d, s)

--------------------------------------------------------------------------
(* Coverage under the returned vacation schedule *)

\* the employees on vacation on date d in schedule
vacationers(schedule, d) ==
    {n \in DOMAIN schedule : d \in Range(schedule[n])}

requirements_on(d) ==
    IF is_weekend(d) THEN coverage_weekend ELSE coverage_weekday

\* C13: in every schedule plan_vacations returns, on each date with at least
\* one employee on vacation the number on vacation is at most
\* total_employees minus the total head-count required that date, and the
\* employees not on vacation meet the head-count and, for each skill, the
\* summed head-count of the date's requirements for that skill.
C13_CoverageFeasible ==
    PlanReturned =>
        \A d \in Range(dates) :
            LET away == vacationers(vacation_schedule, d)
                needed == calculate_min_employees_needed(requirements_on(d))
            IN away # {} =>
                /\ Cardinality(away) <= Len(employees) - needed.total_positions
                /\ Cardinality(Names \ away) >= needed.total_positions
                /\ \A k \in DOMAIN needed.skill_requirements :
                      Cardinality({n \in Names \ away :
                          needed.skill_requirements[k][1]
                              \in employee_by_name(n).skills})
                        >= needed.skill_requirements[k][2]

\* a returned schedule with a date on which two employees are away, the cap
\* is reached and a skill is required
C13_Witness ==
    /\ PlanReturned
    /\ \E d \in Range(dates) :
          LET away == vacationers(vacation_schedule, d)
              needed == calculate_min_employees_needed(requirements_on(d))
          IN /\ Cardinality(away) >= 2
             /\ Cardinality(away) = Len(employees) - needed.total_positions
             /\ needed.skill_requirements # <<>>

--------------------------------------------------------------------------
(* Outcomes of the allocator *)

\* the call was left by an exception
PlanRaised == pc \in {"ZeroDivisionError", "IndexError"}

\* C14: plan_vacations never aborts: for every employee list, coverage,
\* start date, num_weeks and target it is never left by an exception, and
\* what it returns has an entry for every employee.
C14_NeverAborts ==
    /\ ~PlanRaised
    /\ PlanReturned => DOMAIN vacation_schedule = Names

--------------------------------------------------------------------------
(* Unfilled slots *)

\* the distinct employees the candidate loop of the current group has taken
group_holders == Range(SubSeq(asg.candidates, 1, asg.i - 1))

\* C15: when the candidate loop of a slot group (a required skill, or the
\* residual any-skill slots) ends with fewer distinct employees assigned
\* than the group's needed head-count, an unfilled-slot error is reported
\* for that (date, shift, skill).
C15_UnfilledReported ==
    [][(pc = "assign" /\ pc' # "assign") =>
          (Cardinality(group_holders) < asg.needed
              => <<cur_date, asg.shift_id, asg.skill>> \in errors')]_vars

--------------------------------------------------------------------------
(* Scenario: skill scarcity *)

ScarcityRun ==
    /\ employees = ScarcityEmployees
    /\ coverage_weekday = ScarcityCoverage
    /\ coverage_weekend = ScarcityCoverage
    /\ num_weeks = 2
    /\ target_days_per_employee = 7

\* C16: in the skill-scarcity scenario (10 employees, exactly 2 with skill
\* CRITICAL, 2 CRITICAL employees required every day, 2 weeks, target 7) the
\* returned schedule leaves the 2 critical employees without a block and
\* gives each of the other 8 employees a block of 7 days.
C16_ScarcityBlocks ==
    (ScarcityRun /\ PlanReturned) =>
        \A i \in DOMAIN employees :
            Len(vacation_schedule[employees[i].name]) =
                (IF "CRITICAL" \in employees[i].skills THEN 0 ELSE 7)

--------------------------------------------------------------------------
(* Scenario: relief by the rebalancer *)

count_of(assignments, n) == Len(assignments[n])

\* a call of the rebalancer on an assignment of 20 shifts to H (employee 1)
\* and 12 to L (employee 2) has returned
ReliefReturned ==
    /\ pc = "done"
    /\ rb.run = 0
    /\ count_of(rb.input_assignments, 1) = 20
    /\ count_of(rb.input_assignments, 2) = 12

\* C17: when rebalance_shift_assignments returns from an assignment in which
\* H holds 20 shifts and L holds 12, L being free, not on vacation,
\* skill-compatible and within its weekly hours on H's dates, both shift
\* counts lie in [floor(avg) - 1, floor(avg) + 2] = [15, 18].
C17_ReliefBalanced ==
    ReliefReturned =>
        LET avg == (20 + 12) \div 2
        IN \A n \in {1, 2} :
              /\ count_of(shift_assignments, n) >= avg - 1
              /\ count_of(shift_assignments, n) <= avg + 2

--------------------------------------------------------------------------
(* Scenario: trivial coverage, plan_vacations followed by assign_shifts *)

TrivialRun ==
    /\ employees = TrivialEmployees
    /\ coverage_weekday = TrivialCoverage
    /\ coverage_weekend = TrivialCoverage
    /\ num_weeks = 2
    /\ target_days_per_employee = 7

every_slot_filled ==
    /\ errors = {}
    /\ \A i \in DOMAIN dates :
          Cardinality(holders(shift_assignments, dates[i], 1)) = 2

emergency_dates == {w[1] : w \in warnings}

\* C18 as stated: in the trivial-coverage scenario (4 employees with skill
\* A, 2 required with skill A on shift 1 every day, 2 weeks, target 7) the
\* plan followed by the shift assignment fills every slot on every date and
\* never takes a candidate from tier 3, the emergency tier.
C18_NoEmergencyTier ==
    TrivialRun =>
        /\ warnings = {}
        /\ pc = "done" => every_slot_filled

\* C18 as the code has it: every slot on every date is filled by two
\* distinct employees, and tier 3 is used on the 7th and on the 14th date of
\* the period and on no other: the two employees who are not on vacation
\* have then worked the six days before.
C18_EmergencyOnSeventhDay ==
    TrivialRun =>
        /\ emergency_dates \subseteq {start_date + 6, start_date + 13}
        /\ pc = "done" =>
              /\ every_slot_filled
              /\ emergency_dates = {start_date + 6, start_date + 13}

C18_Witness ==
    /\ TrivialRun
    /\ pc = "done"
    /\ rb.run = 1
    /\ start_date = 3
    /\ \A n \in Names : Len(vacation_schedule[n]) = 7
    /\ warnings # {}

--------------------------------------------------------------------------
(* calculate_shift_hours called on its own *)

NotANumber == [num |-> FALSE, val |-> 0]

\* "HH:MM" strings with hours 0, 6, 9, 17, 22, 23 and minutes 0, 30
ClockTimes == {Time(h, m) : h \in {0, 6, 9, 17, 22, 23}, m \in {0, 30}}

\* strings that split(':') and int() do not take: "" and "ab" (one part,
\* not a number), "0900" and "9" (one part), "ab:00", "09:xx", "ab:cd",
\* and a start that is no string at all (no parts)
BrokenTimes ==
    {<<>>, <<NotANumber>>, <<[num |-> TRUE, val |-> 900]>>,
     <<[num |-> TRUE, val |-> 9]>>,
     <<NotANumber, [num |-> TRUE, val |-> 0]>>,
     <<[num |-> TRUE, val |-> 9], NotANumber>>,
     <<NotANumber, NotANumber>>}

\* strings that parse although they are no time of the day: "24:00" and
\* "09:00:30" (int() takes the first two parts)
OddTimes ==
    {Time(24, 0),
     <<[num |-> TRUE, val |-> 9], [num |-> TRUE, val |-> 0],
       [num |-> TRUE, val |-> 30]>>}

TimeStrings == ClockTimes \cup BrokenTimes \cup OddTimes

\* shifts holds the single shift 1; shift ids 1 (known) and 2 (unknown)
InitHours ==
    /\ \E st \in TimeStrings, en \in TimeStrings :
          /\ (st \notin ClockTimes /\ en \notin ClockTimes) => st = en
          /\ shifts = (1 :> [start |-> st, end |-> en])
    /\ \E id \in {1, 2} : asg = [AsgInit EXCEPT !.shift_id = id]
    /\ pc = "hours_call"
    /\ employees = <<>>
    /\ coverage_weekday = <<>>
    /\ coverage_weekend = <<>>
    /\ dates = <<>>
    /\ vacation_schedule = <<>>
    /\ shift_assignments = <<>>
    /\ hours_per_week = <<>>
    /\ total_hours = <<>>
    /\ shift_counts = <<>>
    /\ consecutive_work_days = <<>>
    /\ last_work_date = <<>>
    /\ errors = {}
    /\ warnings = {}
    /\ rb = RbInit
    /\ start_date = 0
    /\ num_weeks = 0
    /\ target_days_per_employee = 0
    /\ pl = <<>>

\* shift_hours = calculate_shift_hours(shift_id, shifts)
CallShiftHours ==
    /\ pc = "hours_call"
    /\ asg' = [asg EXCEPT !.shift_hours = calculate_shift_hours(asg.shift_id, shifts)]
    /\ pc' = "hours_returned"
    /\ UNCHANGED <<inputs, shift_assignments, tables, errors, warnings, rb,
                   plan_inputs, pl>>

NextHours == CallShiftHours

SpecHours == InitHours /\ [][NextHours]_vars

\* a well-formed HH:MM string: two numeric parts, hour 0..23, minute 0..59
WellFormed(parts) ==
    /\ Len(parts) = 2
    /\ parts[1].num /\ parts[1].val \in 0..23
    /\ parts[2].num /\ parts[2].val \in 0..59

minute_of_day(parts) == parts[1].val * 60 + parts[2].val

--------------------------------------------------------------------------
(* The block lengths tried before the fallback *)

InFallback == pc \in {"fallback1", "fallback2"}

\* C20: when the fallback branch is taken, the main search has tried the
\* block lengths from min(target_days, max_block) down to 1: the lowest
\* length of its range is 1 whenever the range is not empty.
C20_DownToOne ==
    (InFallback /\ start_size >= 1) => pl.end_size = 1

--------------------------------------------------------------------------
(* Order in which the candidates of a slot group are taken *)

key_of(n) ==
    create_sort_key_for_employee(n, week_start_of(cur_date), asg.shift_hours)

\* positions lo..hi of the candidate list are in ascending key order
ascending(lo, hi) ==
    \A j, k \in lo..hi :
        j < k => ~LexLess(key_of(asg.candidates[k]), key_of(asg.candidates[j]), 1)

tier12_members == Range(SubSeq(asg.candidates, 1, asg.n_tier1 + asg.n_tier2))
taken_before(j) == Range(SubSeq(asg.candidates, 1, j - 1))

\* C21: the candidates of a slot group are taken in tier order.  When the
\* group is entered, each tier is in ascending order of (would exceed
\* target, week hours, shift count, total hours, name); every candidate
\* taken holds the shift; a candidate that qualifies for tier 3 only is
\* taken only after every tier-1 and tier-2 candidate of the group, and a
\* tier-2 candidate only after every tier-1 candidate.
C21_TierOrder ==
    pc = "assign" =>
        LET n1 == asg.n_tier1
            n2 == asg.n_tier2
        IN /\ asg.i = 1 =>
                 /\ ascending(1, n1)
                 /\ ascending(n1 + 1, n1 + n2)
                 /\ ascending(n1 + n2 + 1, Len(asg.candidates))
           /\ \A j \in 1..(asg.i - 1) :
                 /\ HasDate(shift_assignments[asg.candidates[j]], cur_date)
                 /\ (j > n1 + n2 /\ asg.candidates[j] \notin tier12_members)
                       => tier12_members \subseteq taken_before(j)
                 /\ (j > n1 /\ j <= n1 + n2)
                       => Range(SubSeq(asg.candidates, 1, n1)) \subseteq taken_before(j)

\* a group in which the tier-1 and tier-2 candidates and then a candidate
\* that qualifies for tier 3 only have been taken
C21_Witness ==
    /\ pc = "assign"
    /\ asg.n_tier1 + asg.n_tier2 > 0
    /\ asg.i > asg.n_tier1 + asg.n_tier2 + 1
    /\ asg.candidates[asg.i - 1] \notin tier12_members

--------------------------------------------------------------------------
(* The tiers of a slot group *)

\* C22: the three tiers built for a slot group partition its candidates:
\* every available employee not yet assigned that date (with the skill, if
\* one is required) is in the candidate list, and no employee is in the
\* concatenated list tier1 + tier2 + tier3 twice.
C22_TiersPartition ==
    pc = "assign" =>
        /\ \A j, k \in DOMAIN asg.candidates :
              j # k => asg.candidates[j] # asg.candidates[k]
        /\ asg.i = 1 =>
              Range(asg.candidates) =
                  considered(employees_available(cur_date), asg.assigned_today,
                             asg.skill)

--------------------------------------------------------------------------
(* The skill-needs count of a shift *)

\* the head-counts of the requirements of reqs that name skill k, summed
skilled_head_count(reqs, k) ==
    SumSeq([i \in DOMAIN reqs |->
              IF reqs[i].required_skill = k THEN reqs[i].required ELSE 0])

\* C23: the number of slots the assigner reserves for a skill on a shift is
\* the sum of the head-counts of all of that date's requirements for the
\* shift that name the skill.
C23_SkillNeedsSummed ==
    (pc = "assign" /\ ~asg.residual) =>
        asg.needed =
            skilled_head_count(reqs_of(requirements_for(cur_date), asg.shift_id),
                               asg.skill)

--------------------------------------------------------------------------
(* Skilled slots that cannot be filled *)

AssignmentPhaseDone == pc = "rb_init" /\ rb.run # 0

\* C24: a skilled slot for which an unfilled-slot error was reported stays
\* empty: at the end of the assignment phase the shift has fewer holders
\* that date than its total head-count, no employee lacking the skill
\* having been put into the slot.
C24_SkilledSlotStaysEmpty ==
    AssignmentPhaseDone =>
        \A e \in errors :
            e[3] # NoneSkill =>
                Cardinality(holders(shift_assignments, e[1], e[2]))
                    < total_needed_of(reqs_of(requirements_for(e[1]), e[2]))

--------------------------------------------------------------------------
(* The spread of the shift counts *)

\* the employees who hold at least one shift in assignments
working_in(assignments) ==
    {n \in DOMAIN assignments : Len(assignments[n]) > 0}

\* largest minus smallest shift count among the employees of W
spread_among(assignments, W) ==
    LET counts == {Len(assignments[n]) : n \in W}
        hi == CHOOSE x \in counts : \A y \in counts : y <= x
        lo == CHOOSE x \in counts : \A y \in counts : x <= y
    IN hi - lo

\* C25: when rebalance_shift_assignments returns, the difference between
\* the largest and the smallest shift count among the employees who held a
\* shift before the call is no larger than it was before the call.
C25_SpreadNotWidened ==
    (pc = "done" /\ working_in(rb.input_assignments) # {}) =>
        spread_among(shift_assignments, working_in(rb.input_assignments))
            <= spread_among(rb.input_assignments,
                            working_in(rb.input_assignments))

--------------------------------------------------------------------------
(* C26: at the end of the tiered assignment phase (before rebalancing) the
   transient tables agree with the assignment: for every employee
   shift_counts is the number of dates on which the employee holds a shift,
   total_hours is the sum of the durations of those shifts, and
   hours_per_week of each Monday-anchored week is the sum of the durations
   of the shifts the employee holds in that week. *)
held_minutes(assignments, n) ==
    SumSeq([k \in DOMAIN assignments[n] |->
              calculate_shift_hours(assignments[n][k][2], shifts)])

C26_TablesAgree ==
    AssignmentPhaseDone =>
        \A n \in Names :
            /\ shift_counts[n] = Len(shift_assignments[n])
            /\ total_hours[n] = held_minutes(shift_assignments, n)
            /\ \A w \in WeekStarts :
                  hours_per_week[<<n, w>>] = week_minutes(shift_assignments, n, w)

--------------------------------------------------------------------------
(* C27: if during the tiered assignment no slot was filled from the tier-3
   portion of a candidate list, then at the end of the assignment phase
   (before rebalancing) no employee's hours in a Monday-anchored week exceed
   the employee's max_hours_per_week and no employee holds shifts on more
   than 6 consecutive dates. *)

\* the employee holds a shift on each of the k dates from d on
works_run(assignments, n, d, k) ==
    \A j \in 0..(k - 1) : HasDate(assignments[n], d + j)

C27_LimitsKeptWithoutEmergency ==
    (AssignmentPhaseDone /\ warnings = {}) =>
        \A n \in Names :
            /\ \A w \in WeekStarts :
                  week_minutes(shift_assignments, n, w)
                      <= employee_by_name(n).max_hours_per_week * 60
            /\ \A d \in Range(dates) :
                  ~works_run(shift_assignments, n, d, ConsecutiveLimit + 1)

\* an assignment phase that ended without a tier-3 pick in which an employee
\* worked six dates in a row, filling a week up to max_hours_per_week, and
\* another employee took the date after them
C27_Witness ==
    /\ AssignmentPhaseDone
    /\ warnings = {}
    /\ \E n \in Names : \E d \in Range(dates) :
          /\ works_run(shift_assignments, n, d, ConsecutiveLimit)
          /\ d + ConsecutiveLimit \in Range(dates)
          /\ ~HasDate(shift_assignments[n], d + ConsecutiveLimit)
          /\ week_minutes(shift_assignments, n, week_start_of(d))
                = employee_by_name(n).max_hours_per_week * 60

--------------------------------------------------------------------------
(* The run of working days *)

RECURSIVE run_ending(_, _)
\* the number of consecutive dates, the last of them d, on which the dict
\* a holds a shift
run_ending(a, d) ==
    IF HasDate(a, d) THEN 1 + run_ending(a, d - 1) ELSE 0

\* C28: the consecutive-day count that decides whether an employee is in
\* tier 1 or tier 2 on date d is the length of the run of consecutive dates
\* ending at d - 1 on which the employee holds a shift; it is 0 for an
\* employee who did not work on d - 1.
C28_CountIsRunToYesterday ==
    (pc = "assign" /\ asg.i = 1) =>
        \A n \in considered(employees_available(cur_date), asg.assigned_today,
                            asg.skill) :
            consecutive_work_days[n]
                = run_ending(shift_assignments[n], cur_date - 1)

--------------------------------------------------------------------------
(* C29: the rebalancer never gives a shift to an employee who held no shift
   when rebalancing started: such an employee is neither a donor nor a
   receiver in any pass and still holds no shift when
   rebalance_shift_assignments returns. *)
idle_at_start == {n \in Names : rb.input_assignments[n] = <<>>}

C29_IdleStaysIdle ==
    (Rebalancing \/ (pc = "done" /\ rb.working_employees # <<>>)) =>
        \A n \in idle_at_start :
            /\ n \notin Range(rb.over_assigned)
            /\ n \notin Range(rb.under_assigned)
            /\ shift_assignments[n] = <<>>

\* a rebalancing that moved shifts and returned, with an employee who held
\* no shift at the start
C29_Witness ==
    /\ pc = "done"
    /\ rb.total_transfers > 0
    /\ idle_at_start # {}

--------------------------------------------------------------------------
(* C30: in a schedule returned by the main search of plan_vacations all
   non-empty blocks have one common length L; so a spread of exactly 1
   occurs only when L = 1 and at least one employee is unplaced, and
   whenever the common length is 2 or more every employee has a block. *)
C30_CommonBlockLength ==
    MainSearchReturned =>
        LET P == placed(vacation_schedule) IN
        /\ \A a \in P, b \in P :
              Len(vacation_schedule[a]) = Len(vacation_schedule[b])
        /\ spread_of(vacation_schedule) = 1 =>
              /\ \A a \in P : Len(vacation_schedule[a]) = 1
              /\ P # DOMAIN vacation_schedule
        /\ (\E a \in P : Len(vacation_schedule[a]) >= 2) =>
              P = DOMAIN vacation_schedule

\* a returned main-search schedule whose blocks are two dates or longer but
\* shorter than the first length tried, found in a period in which an
\* employee cannot be away on every date
C30_Witness ==
    /\ MainSearchReturned
    /\ Len(employees) >= 2
    /\ \E a \in placed(vacation_schedule) :
          /\ Len(vacation_schedule[a]) >= 2
          /\ Len(vacation_schedule[a]) < start_size

====
